---- MODULE Spec2Model ----
(***************************************************************************)
(* Spreadsheet import pipeline of the prospects page                       *)
(* (src/src/pages/admin/AdminLayout.jsx, ProspectsDetailsPage component)   *)
(* and the bulk insert of src/src/services/prospectsService.js.            *)
(*                                                                         *)
(* JavaScript strings are TLA+ strings; Len, \o, SubSeq, Head and Tail act *)
(* on them character by character.                                         *)
(***************************************************************************)
EXTENDS Integers, Sequences, FiniteSets, TLC

VARIABLES
  configured,          \* APPWRITE_CONFIG has databaseId and prospectsCollectionId
  store,               \* documents of the prospects collection, in creation order
  createCalls,         \* databases.createDocument calls issued so far
  outstanding,         \* createDocument calls issued and not yet settled
  prospects,           \* useState: rows shown in the table
  importing,           \* useState: import in progress
  error,               \* useState: inline error message
  importedSignatures,  \* useState: fingerprints of the imports of this page instance
  imports,             \* handleImportExcel invocations so far
  pc,                  \* position of the running handleImportExcel
  h,                   \* locals of the running handleImportExcel
  last,                \* outcome of the handleImportExcel that finished last
  insertedBatches,     \* batches whose createProspectsBulk returned normally
  mHeader,             \* header handed to matchExcelHeaderToSchemaField
  mResult,             \* what matchExcelHeaderToSchemaField returned for it
  mToken,              \* the local "normalized" of that call
  mPc,                 \* "ready" before the call, "done" after it
  sHeaders,            \* header row handed to buildAutoMapping
  sRows,               \* data rows handed to buildProspectsFromMapping
  sMapping,            \* what buildAutoMapping returned
  sProspects,          \* what buildProspectsFromMapping returned
  sPc,                 \* "ready", "mapped" after buildAutoMapping, "built" at the end
  usersConfigured,     \* APPWRITE_CONFIG has databaseId and usersCollectionId
  aSession,            \* e-mail of the account whose Appwrite session the browser holds, or ""
  aLocal,              \* localStorage item cb-local-auth
  aUser,               \* useState user of AuthProvider
  aRole,               \* useState role of AuthProvider
  aLoading,            \* useState loading of AuthProvider
  aPc,                 \* position of the running loadSession, login or logout
  aArgs,               \* (email, password) of the running login
  aLast,               \* how the login or logout that finished last ended
  rPath,               \* location of the router
  svcConfigured,       \* which ids APPWRITE_CONFIG holds: database and collections
  svcProspects,        \* documents of the prospects collection seen by the services
  svcUsers,            \* documents of the users collection
  svcBadges,           \* documents of the badge counts collection
  svcCall,             \* the service function running, its arguments and position
  svcResult,           \* what the service function that finished last returned or threw
  svcRequests,         \* requests sent to the store by the current or last call
  svcCalls,            \* service functions called so far
  svcPeer,             \* saveBadgeCounts running in a second admin session
  svcPeerResult,       \* what the saveBadgeCounts of that session returned or threw
  dRemote,             \* what fetchBadgeCounts would return now
  dCounts,             \* useState counts of AdminDashboard
  dDraft,              \* useState draft
  dLoading,            \* useState loading
  dSaving,             \* useState saving
  dSource,             \* useState source
  dError,              \* useState error
  dSuccess,            \* useState success
  dModalOpen,          \* useState badgeModalOpen
  dLoadPc,             \* position of loadCounts
  dSaveDraft,          \* the draft of the render whose handleSaveBadgeModal is running
  dSteps,              \* user actions on the dashboard so far
  uLogsByProspect,     \* useState userCallLogsByProspect of UserDashboard
  uFormOpen,           \* useState formOpen
  uViewOnly,           \* useState viewOnly
  uSelected,           \* useState selectedProspect
  uForm,               \* useState form
  uSubmitting,         \* useState submitting
  uSuccess,            \* useState success
  uError,              \* useState error
  uPayload,            \* the createCallLog call in flight: its argument and the form it came from
  uTimers,             \* pending setTimeout callbacks, each with the form it was set for
  uFormId,             \* how many times openForm has run
  uCallLogs,           \* documents of the call logs collection
  uSteps               \* user actions on the user dashboard so far

vars == << configured, store, createCalls, outstanding, prospects, importing,
           error, importedSignatures, imports, pc, h, last, insertedBatches,
           mHeader, mResult, mToken, mPc,
           sHeaders, sRows, sMapping, sProspects, sPc,
           usersConfigured, aSession, aLocal, aUser, aRole, aLoading, aPc, aArgs,
           aLast, rPath,
           svcConfigured, svcProspects, svcUsers, svcBadges, svcCall, svcResult,
           svcRequests, svcCalls, svcPeer, svcPeerResult,
           dRemote, dCounts, dDraft, dLoading, dSaving, dSource, dError, dSuccess,
           dModalOpen, dLoadPc, dSaveDraft, dSteps,
           uLogsByProspect, uFormOpen, uViewOnly, uSelected, uForm, uSubmitting,
           uSuccess, uError, uPayload, uTimers, uFormId, uCallLogs, uSteps >>

importVars == << configured, store, createCalls, outstanding, prospects,
                 importing, error, importedSignatures, imports, pc, h, last,
                 insertedBatches >>

matchVars == << mHeader, mResult, mToken, mPc >>

sheetVars == << sHeaders, sRows, sMapping, sProspects, sPc >>

authVars == << usersConfigured, aSession, aLocal, aUser, aRole, aLoading, aPc, aArgs,
              aLast, rPath >>

serviceVars == << svcConfigured, svcProspects, svcUsers, svcBadges, svcCall, svcResult,
                 svcRequests, svcCalls, svcPeer, svcPeerResult >>

dashVars == << dRemote, dCounts, dDraft, dLoading, dSaving, dSource, dError, dSuccess,
              dModalOpen, dLoadPc, dSaveDraft, dSteps >>

callVars == << uLogsByProspect, uFormOpen, uViewOnly, uSelected, uForm, uSubmitting,
              uSuccess, uError, uPayload, uTimers, uFormId, uCallLogs, uSteps >>

\* what the import handler, the matcher call, the sheet functions, the auth
\* provider, the service functions and the two dashboards leave alone
outsideImport == << matchVars, sheetVars, authVars, serviceVars, dashVars, callVars >>

outsideMatch == << importVars, sheetVars, authVars, serviceVars, dashVars, callVars >>

outsideSheet == << importVars, matchVars, authVars, serviceVars, dashVars, callVars >>

outsideAuth == << importVars, matchVars, sheetVars, serviceVars, dashVars, callVars >>

outsideServices == << importVars, matchVars, sheetVars, authVars, dashVars, callVars >>

outsideDash == << importVars, matchVars, sheetVars, authVars, serviceVars, callVars >>

outsideCalls == << importVars, matchVars, sheetVars, authVars, serviceVars, dashVars >>

-----------------------------------------------------------------------------
(* JavaScript values and string primitives *)

\* undefined / null; no string has this value
Undefined == "\\undefined"

\* the value of Object.prototype.constructor converted to a property key
ObjectConstructor == "function Object() { [native code] }"

UpperChars == "ABCDEFGHIJKLMNOPQRSTUVWXYZ"

LowerChars == "abcdefghijklmnopqrstuvwxyz"

DigitChars == "0123456789"

\* the characters of the model's strings in UTF-16 code unit order
CodeUnitOrder == "\t\n +,-/0123456789ABCDEFGHIJKLMNOPQRSTUVWXYZ_abcdefghijklmnopqrstuvwxyz|"

WhiteSpace == {" ", "\t", "\n"}

charAt(s, i) == SubSeq(s, i, i)

CharsOf(s) == { charAt(s, i) : i \in 1..Len(s) }

\* String.prototype.indexOf for a single character, 1-based, 0 when absent
indexOf(s, c) ==
  IF \E i \in 1..Len(s) : charAt(s, i) = c
  THEN CHOOSE i \in 1..Len(s) :
         charAt(s, i) = c /\ \A j \in 1..(i - 1) : charAt(s, j) # c
  ELSE 0

\* code unit rank of each character of the model's strings
charCode == [ c \in CharsOf(CodeUnitOrder) |-> indexOf(CodeUnitOrder, c) ]

LowerOfUpper == [ c \in CharsOf(UpperChars) |-> charAt(LowerChars, indexOf(UpperChars, c)) ]

toLowerCaseChar(c) == IF c \in DOMAIN LowerOfUpper THEN LowerOfUpper[c] ELSE c

AlnumChars == CharsOf(LowerChars) \cup CharsOf(DigitChars)

RECURSIVE toLowerCase(_)
toLowerCase(s) ==
  IF s = "" THEN "" ELSE toLowerCaseChar(Head(s)) \o toLowerCase(Tail(s))

\* s.replace(/[^a-z0-9]/g, "")
RECURSIVE stripNonAlnum(_)
stripNonAlnum(s) ==
  IF s = "" THEN ""
  ELSE (IF Head(s) \in AlnumChars THEN Head(s) ELSE "") \o stripNonAlnum(Tail(s))

startsWith(s, p) == Len(p) <= Len(s) /\ SubSeq(s, 1, Len(p)) = p

includes(s, sub) ==
  \E i \in 0..(Len(s) - Len(sub)) : SubSeq(s, i + 1, i + Len(sub)) = sub

RECURSIVE trimStart(_)
trimStart(s) ==
  IF s # "" /\ Head(s) \in WhiteSpace THEN trimStart(Tail(s)) ELSE s

\* mutant: every blank is removed, inner ones too
trim_everyBlank(s) ==
  LET RECURSIVE strip(_)
      strip(t) == IF t = "" THEN ""
                  ELSE (IF Head(t) \in WhiteSpace THEN "" ELSE Head(t)) \o strip(Tail(t))
  IN strip(s)

RECURSIVE trimEnd(_)
trimEnd(s) ==
  IF s # "" /\ charAt(s, Len(s)) \in WhiteSpace
  THEN trimEnd(SubSeq(s, 1, Len(s) - 1)) ELSE s

trim(s) == trimEnd(trimStart(s))

\* String(v ?? "")
StringOrEmpty(v) == IF v = Undefined THEN "" ELSE v

\* s < t in the order of Array.prototype.sort without comparator
RECURSIVE lessThan(_, _)
lessThan(s, t) ==
  IF t = "" THEN FALSE
  ELSE IF s = "" THEN TRUE
  ELSE IF Head(s) = Head(t) THEN lessThan(Tail(s), Tail(t))
  ELSE charCode[Head(s)] < charCode[Head(t)]

-----------------------------------------------------------------------------
(* Schema and header matching *)

SCHEMA_FIELDS ==
  << "fullName",
     "address",
     "permanentAddress",
     "mobile",
     "bloodgroup",
     "aadhar",
     "dateOfBirth",
     "age",
     "guardian",
     "badgeId",
     "gender",
     "badgeStatus",
     "emergencyContact",
     "DeptFinalisedName",
     "maritalStatus",
     "locality",
     "assignedTo",
     "NamdaanDOI",
     "namdaanInitiated",
     "NamdaanInitiationBy",
     "NamdaanInitiationPlace" >>

EXCEL_HEADER_TO_SCHEMA ==
  << <<"name", "fullName">>,
     <<"nam", "fullName">>,
     <<"fullname", "fullName">>,
     <<"prospect", "fullName">>,
     <<"nameofsewadarsewadarni", "fullName">>,
     <<"address", "address">>,
     <<"residentialaddress", "address">>,
     <<"residentialaddr", "address">>,
     <<"location", "address">>,
     <<"addr", "address">>,
     <<"phone", "mobile">>,
     <<"mobile", "mobile">>,
     <<"phoneno", "mobile">>,
     <<"contact", "mobile">>,
     <<"bloodgroup", "bloodgroup">>,
     <<"bloodgrou", "bloodgroup">>,
     <<"blood", "bloodgroup">>,
     <<"bg", "bloodgroup">>,
     <<"aadhaarcard", "aadhar">>,
     <<"aadhaarc", "aadhar">>,
     <<"aadhar", "aadhar">>,
     <<"dateofbirth", "dateOfBirth">>,
     <<"dateofbir", "dateOfBirth">>,
     <<"dob", "dateOfBirth">>,
     <<"age", "age">>,
     <<"guardianname", "guardian">>,
     <<"guardian", "guardian">>,
     <<"fathersname", "guardian">>,
     <<"batchnumber", "badgeId">>,
     <<"batchnum", "badgeId">>,
     <<"batch", "badgeId">>,
     <<"badgeid", "badgeId">>,
     <<"badge", "badgeId">>,
     <<"gender", "gender">>,
     <<"badgestatus", "badgeStatus">>,
     <<"badgestat", "badgeStatus">>,
     <<"emergencycontact", "emergencyContact">>,
     <<"emergency", "emergencyContact">>,
     <<"emerg", "emergencyContact">>,
     <<"deptfinalisedname", "DeptFinalisedName">>,
     <<"deptfinali", "DeptFinalisedName">>,
     <<"department", "DeptFinalisedName">>,
     <<"maritalstatus", "maritalStatus">>,
     <<"marita", "maritalStatus">>,
     <<"marital", "maritalStatus">>,
     <<"rovillagetownlocalitydistrict", "locality">>,
     <<"locality", "locality">>,
     <<"village", "locality">>,
     <<"namdaandoi", "NamdaanDOI">>,
     <<"namdaaninitiated", "namdaanInitiated">>,
     <<"namdaaninitiationby", "NamdaanInitiationBy">>,
     <<"namdaaninitiationplace", "NamdaanInitiationPlace">>,
     <<"permanentaddress", "permanentAddress">>,
     <<"permaddr", "permanentAddress">>,
     <<"permanantaddress", "permanentAddress">> >>

KEYWORD_TO_SCHEMA ==
  << <<"dateofinitialisation", "NamdaanDOI">>,
     <<"dateofinitiation", "NamdaanDOI">>,
     <<"namadan", "NamdaanDOI">>,
     <<"namdaan", "NamdaanDOI">>,
     <<"doi", "NamdaanDOI">>,
     <<"initiationby", "NamdaanInitiationBy">>,
     <<"initiationplace", "NamdaanInitiationPlace">>,
     <<"initiated", "namdaanInitiated">> >>

REQUIRED_IMPORT_FIELDS == << "fullName", "mobile" >>

\* mutant: only blanks are removed from the header
normalizeHeader_blanksOnly(str) ==
  LET RECURSIVE strip(_)
      strip(s) == IF s = "" THEN ""
                  ELSE (IF Head(s) = " " THEN "" ELSE Head(s)) \o strip(Tail(s))
  IN strip(toLowerCase(StringOrEmpty(str)))

\* mutant: the header is not lowercased before the filter
normalizeHeader_caseSensitive(str) == stripNonAlnum(StringOrEmpty(str))

normalizeHeader(str) == stripNonAlnum(toLowerCase(StringOrEmpty(str)))

\* indices of the own keys of EXCEL_HEADER_TO_SCHEMA equal to key
OwnKeyIndex(key) ==
  { i \in 1..Len(EXCEL_HEADER_TO_SCHEMA) : EXCEL_HEADER_TO_SCHEMA[i][1] = key }

\* EXCEL_HEADER_TO_SCHEMA[key]: an own property, else a property inherited
\* from Object.prototype, else undefined
PropertyLookup(key) ==
  IF OwnKeyIndex(key) # {}
  THEN EXCEL_HEADER_TO_SCHEMA[CHOOSE i \in OwnKeyIndex(key) : TRUE][2]
  ELSE IF key = "constructor" THEN ObjectConstructor
  ELSE Undefined

\* keys, in Object.keys order, in prefix relation with the normalized header
PrefixKeyIndex(normalized) ==
  { i \in 1..Len(EXCEL_HEADER_TO_SCHEMA) :
      \/ startsWith(EXCEL_HEADER_TO_SCHEMA[i][1], normalized)
      \/ startsWith(normalized, EXCEL_HEADER_TO_SCHEMA[i][1]) }

KeywordIndex(normalized) ==
  { i \in 1..Len(KEYWORD_TO_SCHEMA) : includes(normalized, KEYWORD_TO_SCHEMA[i][1]) }

SchemaEqualIndex(normalized) ==
  { i \in 1..Len(SCHEMA_FIELDS) : normalizeHeader(SCHEMA_FIELDS[i]) = normalized }

SchemaIncludedIndex(normalized) ==
  { i \in 1..Len(SCHEMA_FIELDS) :
      normalizeHeader(SCHEMA_FIELDS[i]) # ""
      /\ includes(normalized, normalizeHeader(SCHEMA_FIELDS[i])) }

First(S) == CHOOSE i \in S : \A j \in S : i <= j

\* mutant: the prefix tier is tried before the exact alias lookup
matchExcelHeaderToSchemaField_prefixFirst(excelHeader) ==
  LET normalized == normalizeHeader(excelHeader) IN
  IF normalized = "" THEN Undefined
  ELSE IF Len(normalized) >= 2 /\ PrefixKeyIndex(normalized) # {}
    THEN EXCEL_HEADER_TO_SCHEMA[First(PrefixKeyIndex(normalized))][2]
  ELSE IF PropertyLookup(normalized) # Undefined THEN PropertyLookup(normalized)
  ELSE IF SchemaEqualIndex(normalized) # {}
    THEN SCHEMA_FIELDS[First(SchemaEqualIndex(normalized))]
  ELSE IF KeywordIndex(normalized) # {}
    THEN KEYWORD_TO_SCHEMA[First(KeywordIndex(normalized))][2]
  ELSE IF SchemaIncludedIndex(normalized) # {}
    THEN SCHEMA_FIELDS[First(SchemaIncludedIndex(normalized))]
  ELSE Undefined

matchExcelHeaderToSchemaField(excelHeader) ==
  LET normalized == normalizeHeader(excelHeader) IN
  IF normalized = "" THEN Undefined
  ELSE IF PropertyLookup(normalized) # Undefined THEN PropertyLookup(normalized)
  ELSE IF Len(normalized) >= 2 /\ PrefixKeyIndex(normalized) # {}
    THEN EXCEL_HEADER_TO_SCHEMA[First(PrefixKeyIndex(normalized))][2]
  ELSE IF SchemaEqualIndex(normalized) # {}
    THEN SCHEMA_FIELDS[First(SchemaEqualIndex(normalized))]
  ELSE IF KeywordIndex(normalized) # {}
    THEN KEYWORD_TO_SCHEMA[First(KeywordIndex(normalized))][2]
  ELSE IF SchemaIncludedIndex(normalized) # {}
    THEN SCHEMA_FIELDS[First(SchemaIncludedIndex(normalized))]
  ELSE Undefined

buildAutoMapping(excelHeaders) ==
  [ i \in 1..Len(excelHeaders) |-> matchExcelHeaderToSchemaField(excelHeaders[i]) ]

-----------------------------------------------------------------------------
(* Parsing, materializing and fingerprinting a sheet *)

\* p[key], undefined when p has no such property
Get(p, key) == IF key \in DOMAIN p THEN p[key] ELSE Undefined

\* a ?? b
Coalesce(a, b) == IF a # Undefined THEN a ELSE b

\* JavaScript truthiness of a string or undefined
Truthy(v) == v # Undefined /\ v # ""

\* a || b
OrElse(a, b) == IF Truthy(a) THEN a ELSE b

\* Array.prototype.join: undefined and null elements count as ""
RECURSIVE join(_, _)
join(seq, sep) ==
  IF seq = << >> THEN ""
  ELSE IF Len(seq) = 1 THEN StringOrEmpty(seq[1])
  ELSE StringOrEmpty(seq[1]) \o sep \o join(Tail(seq), sep)

RECURSIVE insertSorted(_, _)
insertSorted(seq, s) ==
  IF seq = << >> THEN << s >>
  ELSE IF lessThan(s, Head(seq)) THEN << s >> \o seq
  ELSE << Head(seq) >> \o insertSorted(Tail(seq), s)

\* Array.prototype.sort() on strings
RECURSIVE sort(_)
sort(seq) ==
  IF seq = << >> THEN << >> ELSE insertSorted(sort(Tail(seq)), Head(seq))

\* body of reader.onload once the workbook is read: file.json is
\* XLSX.utils.sheet_to_json(firstSheet, {header: 1})
parseExcelFileRaw(file) ==
  IF file.json = << >> THEN [ headers |-> << >>, rows |-> << >> ]
  ELSE [ headers |-> [ i \in 1..Len(file.json[1]) |->
                         trim(StringOrEmpty(file.json[1][i])) ],
         rows |-> SelectSeq(Tail(file.json),
                    LAMBDA row : \E c \in 1..Len(row) :
                                   row[c] # Undefined /\ trim(row[c]) # "") ]

\* the property keys written by the forEach of buildProspectsFromMapping
MappedKeys(columnMapping) ==
  { columnMapping[c] : c \in { d \in 1..Len(columnMapping) :
                                 Truthy(columnMapping[d]) /\ columnMapping[d] # "__skip__" } }

\* mutant: the first column mapped to a key keeps its value
buildProspect_firstWins(row, columnMapping) ==
  [ key \in MappedKeys(columnMapping) |->
      LET col == CHOOSE c \in 1..Len(columnMapping) :
                   /\ columnMapping[c] = key
                   /\ \A d \in 1..Len(columnMapping) : columnMapping[d] = key => c <= d
          raw == IF col <= Len(row) THEN row[col] ELSE Undefined
      IN IF raw = Undefined \/ raw = "" THEN "" ELSE trim(raw) ]

\* one candidate record: the last column mapped to a key supplies its value
buildProspect(row, columnMapping) ==
  [ key \in MappedKeys(columnMapping) |->
      LET col == CHOOSE c \in 1..Len(columnMapping) :
                   /\ columnMapping[c] = key
                   /\ \A d \in 1..Len(columnMapping) : columnMapping[d] = key => d <= c
          raw == IF col <= Len(row) THEN row[col] ELSE Undefined
      IN IF raw = Undefined \/ raw = "" THEN "" ELSE trim(raw) ]

buildProspectsFromMapping(rows, columnMapping) ==
  [ r \in 1..Len(rows) |-> buildProspect(rows[r], columnMapping) ]

\* mutant: the assignment read from the sheet is kept
withAssignedTo_asMapped(p) ==
  [ key \in DOMAIN p \cup {"assignedTo"} |-> IF key \in DOMAIN p THEN p[key] ELSE "" ]

\* { ...p, assignedTo: "" }
withAssignedTo(p) ==
  [ key \in DOMAIN p \cup {"assignedTo"} |-> IF key = "assignedTo" THEN "" ELSE p[key] ]

signatureRow(p) ==
  join(<< Coalesce(Get(p, "fullName"), Get(p, "name")), Get(p, "address"),
          Get(p, "mobile"), Get(p, "badgeId"), Get(p, "assignedTo"),
          Get(p, "bloodgroup") >>, "|")

\* mutant: the per-record strings are joined without being sorted
getImportSignature_unsorted(batch) ==
  join([ i \in 1..Len(batch) |-> signatureRow(batch[i]) ], "\n")

getImportSignature(batch) ==
  join(sort([ i \in 1..Len(batch) |-> signatureRow(batch[i]) ]), "\n")

\* mutant: only the first required field is looked for
missingRequiredOf_firstOnly(columnMapping) ==
  SelectSeq(<< REQUIRED_IMPORT_FIELDS[1] >>,
            LAMBDA r : ~ \E c \in 1..Len(columnMapping) :
                           Truthy(columnMapping[c]) /\ columnMapping[c] = r)

\* REQUIRED_IMPORT_FIELDS.filter((r) => !mappedFields.has(r))
missingRequiredOf(columnMapping) ==
  SelectSeq(REQUIRED_IMPORT_FIELDS,
             LAMBDA r : ~ \E c \in 1..Len(columnMapping) :
                            Truthy(columnMapping[c]) /\ columnMapping[c] = r)

-----------------------------------------------------------------------------
(* Record Store documents *)

\* String(v).trim() || dflt
trimOr(v, dflt) == OrElse(trim(v), dflt)

toDbProspect(p) ==
  LET address ==
        IF Truthy(Get(p, "address")) THEN Get(p, "address")
        ELSE IF Truthy(Get(p, "locality")) /\ Truthy(Get(p, "fullAddress"))
          THEN Get(p, "locality") \o ", " \o Get(p, "fullAddress")
        ELSE OrElse(OrElse(Get(p, "fullAddress"), Get(p, "locality")), "")
  IN [ fullName |-> trimOr(Coalesce(Coalesce(Get(p, "fullName"), Get(p, "name")), ""), ""),
       address |-> trimOr(Coalesce(address, ""), ""),
       mobile |-> trimOr(Coalesce(Coalesce(Coalesce(Get(p, "mobile"), Get(p, "phoneNumber")),
                                           Get(p, "mobileNumber")), ""), ""),
       bloodgroup |-> trimOr(Coalesce(Coalesce(Get(p, "bloodgroup"), Get(p, "bloodGroup")), "-"), "-"),
       aadhar |-> trimOr(Coalesce(Coalesce(Get(p, "aadhar"), Get(p, "aadharNumber")), ""), ""),
       dateOfBirth |-> trimOr(Coalesce(Get(p, "dateOfBirth"), ""), ""),
       age |-> trimOr(Coalesce(Get(p, "age"), ""), ""),
       guardian |-> trimOr(Coalesce(Coalesce(Get(p, "guardian"), Get(p, "fathersName")), ""), ""),
       batchNumber |-> trimOr(Coalesce(Coalesce(Get(p, "batchNumber"), Get(p, "badgeId")), ""), ""),
       gender |-> trimOr(Coalesce(Get(p, "gender"), "Male"), "Male"),
       badgeStatus |-> trimOr(Coalesce(Get(p, "badgeStatus"), "N/A"), "N/A"),
       emergencyContact |-> trimOr(Coalesce(Get(p, "emergencyContact"), ""), ""),
       DeptFinalisedName |-> trimOr(Coalesce(Coalesce(Get(p, "DeptFinalisedName"),
                                                      Get(p, "departmentName")), ""), ""),
       maritalStatus |-> trimOr(Coalesce(Get(p, "maritalStatus"), "N/A"), "N/A"),
       locality |-> trimOr(Coalesce(Get(p, "locality"), ""), ""),
       assignedTo |-> trimOr(Coalesce(Get(p, "assignedTo"), ""), ""),
       NamdaanDOI |-> trimOr(Coalesce(Coalesce(Get(p, "NamdaanDOI"), Get(p, "dateOfInitiation")), ""), ""),
       namdaanInitiated |-> trimOr(Coalesce(Get(p, "namdaanInitiated"),
                                            IF Truthy(Get(p, "initiated")) THEN "yes" ELSE "no"), "no"),
       NamdaanInitiationBy |-> trimOr(Coalesce(Coalesce(Get(p, "NamdaanInitiationBy"),
                                                        Get(p, "initiationBy")), ""), ""),
       NamdaanInitiationPlace |-> trimOr(Coalesce(Coalesce(Get(p, "NamdaanInitiationPlace"),
                                                           Get(p, "initiationPlace")), ""), "") ]

\* the table row of a stored document
docToDisplay(doc) ==
  [ name |-> OrElse(trim(doc.fullName), "-"),
    address |-> OrElse(trim(doc.address), "-"),
    phoneNumber |-> OrElse(trim(doc.mobile), "-"),
    batchNumber |-> OrElse(trim(doc.batchNumber), "-"),
    assignedTo |-> OrElse(trim(doc.assignedTo), "Unassigned"),
    bloodGroup |-> OrElse(trim(doc.bloodgroup), "-") ]

-----------------------------------------------------------------------------
(* Bounds and inputs *)

\* handleImportExcel invocations per page instance
MaxImports == 2

\* data rows per uploaded sheet
MaxRows == 2

\* the header row whose sheets are imported with every choice of data rows
MainHeaderRow == << "Name", "Phone", "Address" >>

\* header rows imported with at most one data row
OtherHeaderRows ==
  { << "Name", "Address", "Favorite Color" >>,
    << "Mobile", "Blood Grou", "Age" >>,
    << "Address", "Age", "Gender" >>,
    << "Name", "Full Name", "Mobile" >> }

\* rows with data; cells carry leading and trailing blanks
DataRows ==
  { << "A", "1", "x" >>,
    << "B", " 2", "y " >> }

\* a row whose every cell is empty, blank or missing
BlankRow == << "", " ", Undefined >>

SeqsUpTo(S, n) == UNION { [ 1..k -> S ] : k \in 0..n }

\* the data rows of the sheets under MainHeaderRow: up to MaxRows rows with
\* data, or a blank row alone or ahead of a row with data
MainRows ==
  SeqsUpTo(DataRows, MaxRows)
  \cup { << BlankRow >> } \cup { << BlankRow, r >> : r \in DataRows }

\* the sheet of the end-to-end scenario
ScenarioHeaders == << "Nam", "Addr", "Phone", "Batch Num", "Blood" >>

ScenarioRow == << "Ravi Kumar", "12 MG Road", "9998887777", "B12", "O+" >>

ScenarioFile == [ readable |-> TRUE, json |-> << ScenarioHeaders, ScenarioRow >> ]

\* a sheet whose first row is empty and whose second row has data
NoHeadersFile == [ readable |-> TRUE, json |-> << << >>, << "A", "1", "x" >> >> ]

\* a sheet with an assignment column and a column of a field outside the
\* fingerprint, and the same sheet after the value of that column was corrected
AssignedHeaders == << "Name", "Phone", "Assigned To", "Permanent Address" >>

AssignedFile ==
  [ readable |-> TRUE,
    json |-> << AssignedHeaders, << "A", "1", "vol@cb", "Old Road" >> >> ]

RevisedFile ==
  [ readable |-> TRUE,
    json |-> << AssignedHeaders, << "A", "1", "vol@cb", "New Road" >> >> ]

\* what the user can pick in the file dialog
Files ==
  { [ readable |-> FALSE, json |-> << >> ], [ readable |-> TRUE, json |-> << >> ],
    ScenarioFile, NoHeadersFile, AssignedFile, RevisedFile }
  \cup { [ readable |-> TRUE, json |-> << MainHeaderRow >> \o rows ] : rows \in MainRows }
  \cup { [ readable |-> TRUE, json |-> << hdr >> \o rows ] :
           hdr \in OtherHeaderRows, rows \in SeqsUpTo(DataRows, 1) }

\* err.message of a rejected createDocument call
FailureMessages == { "", "Network request failed" }

MsgUnreadable == "The requested file could not be read"

MsgNoRows == "Excel file has no headers or data rows."

\* mutant: the message lists every required field
MsgMissing_allRequired(missingRequired) ==
  "Required columns not found: " \o join(REQUIRED_IMPORT_FIELDS, ", ")
  \o ". Please add columns named \"Name of Sewadar/Sewadarni\" (prospect name) and \"Phone\" (or \"Mobile\") in your Excel."

MsgMissing(missingRequired) ==
  "Required columns not found: " \o join(missingRequired, ", ")
  \o ". Please add columns named \"Name of Sewadar/Sewadarni\" (prospect name) and \"Phone\" (or \"Mobile\") in your Excel."

MsgDuplicate == "This Excel file has already been imported. No duplicate data added."

MsgNotConfigured == "Appwrite prospects collection is not configured."

MsgGeneric == "Failed to import prospects."

\* the locals handleImportExcel computes from the file once it is read:
\* { headers, rows }, columnMapping, missingRequired, prospects (with
\* assignedTo) and fileSignature
ImportLocals ==
  [ file \in { f \in Files : f.readable } |->
      LET parsed == parseExcelFileRaw(file)
          columnMapping == buildAutoMapping(parsed.headers)
          built == buildProspectsFromMapping(parsed.rows, columnMapping)
          batch == [ i \in 1..Len(built) |-> withAssignedTo(built[i]) ]
      IN [ parsed |-> parsed,
           columnMapping |-> columnMapping,
           missingRequired |-> missingRequiredOf(columnMapping),
           prospects |-> batch,
           fileSignature |-> getImportSignature(batch) ] ]

NoLocals == [ file |-> [ readable |-> FALSE, json |-> << >> ], headers |-> << >>,
              batch |-> << >>, signature |-> "", k |-> 0, sigs |-> {},
              callsAtStart |-> 0 ]

Outcome(o, calls, missing, headers, batch) ==
  [ outcome |-> o, calls |-> calls, missing |-> missing, headers |-> headers,
    batch |-> batch ]

-----------------------------------------------------------------------------
(* handleImportExcel and createProspectsBulk, one action per run between awaits *)

\* the matcher is not under test
MatchOff ==
  /\ mHeader = ""
  /\ mResult = Undefined
  /\ mToken = ""
  /\ mPc = "off"

\* the sheet functions are not under test
SheetOff ==
  /\ sHeaders = << >>
  /\ sRows = << >>
  /\ sMapping = << >>
  /\ sProspects = << >>
  /\ sPc = "off"

\* null
Null == "\\null"

\* user === null
NoUser == [ source |-> "none", email |-> "", id |-> "" ]

\* no cb-local-auth item in localStorage
NoLocalAuth == [ email |-> "", id |-> "", role |-> "" ]

NoArgs == [ email |-> "", password |-> "" ]

\* the auth provider is not under test
AuthOff ==
  /\ usersConfigured = TRUE
  /\ aSession = ""
  /\ aLocal = NoLocalAuth
  /\ aUser = NoUser
  /\ aRole = Null
  /\ aLoading = TRUE
  /\ aPc = "off"
  /\ aArgs = NoArgs
  /\ aLast = "none"
  /\ rPath = ""

\* no service function is running
NoFields == [ key \in {} |-> "" ]

NoCall == [ op |-> "none", step |-> "idle", id |-> "", email |-> "", role |-> "",
            data |-> NoFields ]

\* kind is "returned" or "threw"
NoResult == [ op |-> "none", kind |-> "none", message |-> "", documents |-> << >>,
              id |-> "", counts |-> NoFields, source |-> "" ]

\* the service functions are not under test
ServicesOff ==
  /\ svcConfigured = [ databaseId |-> TRUE, prospects |-> TRUE, users |-> TRUE,
                       badges |-> TRUE ]
  /\ svcProspects = {}
  /\ svcUsers = {}
  /\ svcBadges = {}
  /\ svcCall = NoCall
  /\ svcResult = NoResult
  /\ svcRequests = 0
  /\ svcCalls = 0
  /\ svcPeer = NoCall
  /\ svcPeerResult = NoResult

\* useState({ open: 0, permanent: 0, elderly: 0, sangat: 0, newProspects: 0 })
ZeroCounts ==
  [ open |-> 0, permanent |-> 0, elderly |-> 0, sangat |-> 0, newProspects |-> 0 ]

\* the admin dashboard is not mounted
DashOff ==
  /\ dRemote = [ source |-> "default", counts |-> ZeroCounts ]
  /\ dCounts = ZeroCounts
  /\ dDraft = ZeroCounts
  /\ dLoading = TRUE
  /\ dSaving = FALSE
  /\ dSource = "default"
  /\ dError = ""
  /\ dSuccess = ""
  /\ dModalOpen = FALSE
  /\ dLoadPc = "off"
  /\ dSaveDraft = ZeroCounts
  /\ dSteps = 0

INITIAL_FORM ==
  [ select |-> "", callBack |-> "", notInterest |-> "", needToWork |-> "",
    notes1 |-> "", notes2 |-> "", notes3 |-> "", nominalListSelect |-> "",
    visitSelect |-> "", freeSewa |-> "N/A", jathaDetails |-> << >> ]

\* no createCallLog call is in flight
NoPayload ==
  [ form |-> 0,
    data |-> [ prospectId |-> "", prospectName |-> "", submittedBy |-> "", select |-> "",
               callBack |-> "", notInterest |-> "", needToWork |-> "", notes1 |-> "",
               notes2 |-> "", notes3 |-> "", nominalListSelect |-> "", visitSelect |-> "",
               freeSewa |-> "", jathaDetails |-> "" ] ]

\* the user dashboard is not mounted
CallsOff ==
  /\ uLogsByProspect = {}
  /\ uFormOpen = FALSE
  /\ uViewOnly = FALSE
  /\ uSelected = ""
  /\ uForm = INITIAL_FORM
  /\ uSubmitting = FALSE
  /\ uSuccess = ""
  /\ uError = ""
  /\ uPayload = NoPayload
  /\ uTimers = << >>
  /\ uFormId = 0
  /\ uCallLogs = << >>
  /\ uSteps = 0

\* the page as mounted, no import started
ImportOff ==
  /\ configured = TRUE
  /\ store = << >>
  /\ createCalls = 0
  /\ outstanding = 0
  /\ prospects = << >>
  /\ importing = FALSE
  /\ error = ""
  /\ importedSignatures = {}
  /\ imports = 0
  /\ pc = "idle"
  /\ h = NoLocals
  /\ last = Outcome("none", 0, << >>, << >>, << >>)
  /\ insertedBatches = {}

Init ==
  /\ configured \in BOOLEAN
  /\ store = << >>
  /\ createCalls = 0
  /\ outstanding = 0
  /\ prospects = << >>
  /\ importing = FALSE
  /\ error = ""
  /\ importedSignatures = {}
  /\ imports = 0
  /\ pc = "idle"
  /\ h = NoLocals
  /\ last = Outcome("none", 0, << >>, << >>, << >>)
  /\ insertedBatches = {}
  /\ MatchOff
  /\ SheetOff
  /\ AuthOff
  /\ DashOff
  /\ CallsOff
  /\ ServicesOff

\* mutant: no finally block, the flag is reset on the success path only
Finish_noFinally(o, message, missing, headers, batch) ==
  /\ error' = message
  /\ importing' = importing
  /\ pc' = "idle"
  /\ h' = NoLocals
  /\ last' = Outcome(o, createCalls - h.callsAtStart, missing, headers, batch)

\* catch (err) { setError(err.message || ...) } finally { setImporting(false) }
\* and the early returns, which run the same finally block
Finish(o, message, missing, headers, batch) ==
  /\ error' = message
  /\ importing' = FALSE
  /\ pc' = "idle"
  /\ h' = NoLocals
  /\ last' = Outcome(o, createCalls - h.callsAtStart, missing, headers, batch)

\* the change event fired with no file chosen: if (!file) return
ImportNoFile ==
  /\ pc = "idle" /\ importing = FALSE /\ imports < MaxImports
  /\ imports' = imports + 1
  /\ last' = Outcome("nofile", 0, << >>, << >>, << >>)
  /\ UNCHANGED << configured, store, createCalls, outstanding, prospects, importing,
                  error, importedSignatures, pc, h, insertedBatches >>
  /\ UNCHANGED outsideImport

\* mutant: the Import button stays enabled while an import is running
ImportStart_buttonEnabled(file) ==
  /\ pc \in { "idle", "parse" } /\ imports < MaxImports
  /\ imports' = imports + 1
  /\ importing' = TRUE
  /\ error' = ""
  /\ pc' = "parse"
  /\ h' = [ NoLocals EXCEPT !.file = file, !.sigs = importedSignatures,
                            !.callsAtStart = createCalls ]
  /\ UNCHANGED << configured, store, createCalls, outstanding, prospects,
                  importedSignatures, last, insertedBatches >>
  /\ UNCHANGED outsideImport

\* the change event with a file, up to await parseExcelFileRaw(file); the
\* button that opens the file dialog is disabled while importing
ImportStart(file) ==
  /\ pc = "idle" /\ importing = FALSE /\ imports < MaxImports
  /\ imports' = imports + 1
  /\ importing' = TRUE
  /\ error' = ""
  /\ pc' = "parse"
  /\ h' = [ NoLocals EXCEPT !.file = file, !.sigs = importedSignatures,
                            !.callsAtStart = createCalls ]
  /\ UNCHANGED << configured, store, createCalls, outstanding, prospects,
                  importedSignatures, last, insertedBatches >>
  /\ UNCHANGED outsideImport

\* mutant: the catch block also empties the table
ParseRejected_clearsList ==
  /\ pc = "parse" /\ ~ h.file.readable
  /\ Finish("parse_error", OrElse(MsgUnreadable, MsgGeneric), << >>, << >>, << >>)
  /\ prospects' = << >>
  /\ UNCHANGED << configured, store, createCalls, outstanding,
                  importedSignatures, imports, insertedBatches >>
  /\ UNCHANGED outsideImport

\* parseExcelFileRaw rejected: reader.onerror or XLSX.read threw
ParseRejected ==
  /\ pc = "parse" /\ ~ h.file.readable
  /\ Finish("parse_error", OrElse(MsgUnreadable, MsgGeneric), << >>, << >>, << >>)
  /\ UNCHANGED << configured, store, createCalls, outstanding, prospects,
                  importedSignatures, imports, insertedBatches >>
  /\ UNCHANGED outsideImport

\* parseExcelFileRaw resolved: the gates, and the first createProspect call
ParseResolved ==
  /\ pc = "parse" /\ h.file.readable
  /\ \E parsed \in { ImportLocals[h.file].parsed } :
     \E missingRequired \in { ImportLocals[h.file].missingRequired } :
     \E batch \in { ImportLocals[h.file].prospects } :
     \E signature \in { ImportLocals[h.file].fileSignature } :
        IF Len(parsed.headers) = 0 \/ Len(parsed.rows) = 0
          THEN /\ Finish("empty", MsgNoRows, << >>, parsed.headers, << >>)
               /\ UNCHANGED << createCalls, outstanding >>
        ELSE IF Len(missingRequired) # 0
          THEN /\ Finish("missing", MsgMissing(missingRequired), missingRequired,
                      parsed.headers, << >>)
               /\ UNCHANGED << createCalls, outstanding >>
        ELSE IF signature \in h.sigs
          THEN /\ Finish("duplicate", MsgDuplicate, << >>, parsed.headers, batch)
               /\ UNCHANGED << createCalls, outstanding >>
        ELSE IF ~ configured
          THEN /\ Finish("config_error", OrElse(MsgNotConfigured, MsgGeneric), << >>,
                      parsed.headers, batch)
               /\ UNCHANGED << createCalls, outstanding >>
        ELSE /\ createCalls' = createCalls + 1
             /\ outstanding' = outstanding + 1
             /\ pc' = "create"
             /\ h' = [ h EXCEPT !.headers = parsed.headers, !.batch = batch,
                                !.signature = signature, !.k = 1 ]
             /\ UNCHANGED << error, importing, last >>
  /\ UNCHANGED << configured, store, prospects, importedSignatures, imports,
                  insertedBatches >>
  /\ UNCHANGED outsideImport

\* mutant: a rejected createDocument is swallowed and the loop goes on
CreateRejected_continues(message) ==
  /\ pc = "create"
  /\ IF h.k < Len(h.batch)
       THEN /\ createCalls' = createCalls + 1
            /\ outstanding' = outstanding
            /\ h' = [ h EXCEPT !.k = h.k + 1 ]
            /\ UNCHANGED << pc, importing, last >>
            /\ error' = OrElse(message, MsgGeneric)
       ELSE /\ outstanding' = outstanding - 1
            /\ Finish("insert_failed", OrElse(message, MsgGeneric), << >>, h.headers, h.batch)
            /\ UNCHANGED createCalls
  /\ UNCHANGED << configured, store, prospects, importedSignatures, imports,
                  insertedBatches >>
  /\ UNCHANGED outsideImport

\* createDocument for record k rejected: the loop is abandoned
CreateRejected(message) ==
  /\ pc = "create"
  /\ outstanding' = outstanding - 1
  /\ Finish("insert_failed", OrElse(message, MsgGeneric), << >>, h.headers, h.batch)
  /\ UNCHANGED << configured, store, createCalls, prospects, importedSignatures,
                  imports, insertedBatches >>
  /\ UNCHANGED outsideImport

\* mutant: the fingerprint set keeps the latest fingerprint only
CreateResolved_keepsLatest ==
  /\ pc = "create"
  /\ store' = Append(store, toDbProspect(h.batch[h.k]))
  /\ IF h.k < Len(h.batch)
       THEN /\ createCalls' = createCalls + 1
            /\ outstanding' = outstanding
            /\ h' = [ h EXCEPT !.k = h.k + 1 ]
            /\ UNCHANGED << pc, importedSignatures, insertedBatches >>
       ELSE /\ outstanding' = outstanding - 1
            /\ importedSignatures' = { h.signature }
            /\ insertedBatches' = insertedBatches \cup { h.batch }
            /\ pc' = "load"
            /\ UNCHANGED << createCalls, h >>
  /\ UNCHANGED << configured, prospects, importing, error, imports, last >>
  /\ UNCHANGED outsideImport

\* mutant: the fingerprint is recorded as soon as the first record is stored
CreateResolved_signatureEarly ==
  /\ pc = "create"
  /\ store' = Append(store, toDbProspect(h.batch[h.k]))
  /\ importedSignatures' = importedSignatures \cup { h.signature }
  /\ IF h.k < Len(h.batch)
       THEN /\ createCalls' = createCalls + 1
            /\ outstanding' = outstanding
            /\ h' = [ h EXCEPT !.k = h.k + 1 ]
            /\ UNCHANGED << pc, insertedBatches >>
       ELSE /\ outstanding' = outstanding - 1
            /\ insertedBatches' = insertedBatches \cup { h.batch }
            /\ pc' = "load"
            /\ UNCHANGED << createCalls, h >>
  /\ UNCHANGED << configured, prospects, importing, error, imports, last >>
  /\ UNCHANGED outsideImport

\* createDocument for record k resolved: next record, or the end of the loop,
\* setImportedSignatures and the listDocuments call of loadProspects
CreateResolved ==
  /\ pc = "create"
  /\ store' = Append(store, toDbProspect(h.batch[h.k]))
  /\ IF h.k < Len(h.batch)
       THEN /\ createCalls' = createCalls + 1
            /\ outstanding' = outstanding
            /\ h' = [ h EXCEPT !.k = h.k + 1 ]
            /\ UNCHANGED << pc, importedSignatures, insertedBatches >>
       ELSE /\ outstanding' = outstanding - 1
            /\ importedSignatures' = importedSignatures \cup { h.signature }
            /\ insertedBatches' = insertedBatches \cup { h.batch }
            /\ pc' = "load"
            /\ UNCHANGED << createCalls, h >>
  /\ UNCHANGED << configured, prospects, importing, error, imports, last >>
  /\ UNCHANGED outsideImport

\* listDocuments settled; listProspects turns a failure into an empty list
LoadSettled(ok) ==
  /\ pc = "load"
  /\ prospects' = IF ok THEN [ i \in 1..Len(store) |-> docToDisplay(store[i]) ] ELSE << >>
  /\ importing' = FALSE
  /\ pc' = "idle"
  /\ h' = NoLocals
  /\ last' = Outcome("success", createCalls - h.callsAtStart, << >>, h.headers, h.batch)
  /\ UNCHANGED << configured, store, createCalls, outstanding, error,
                  importedSignatures, imports, insertedBatches >>
  /\ UNCHANGED outsideImport

Next ==
  \/ ImportNoFile
  \/ \E file \in Files : ImportStart(file)
  \/ ParseRejected
  \/ ParseResolved
  \/ \E message \in FailureMessages : CreateRejected(message)
  \/ CreateResolved
  \/ \E ok \in BOOLEAN : LoadSettled(ok)

Spec == Init /\ [][Next]_vars

\* every awaited promise settles: the FileReader fires load or error, and
\* each request to the store is answered or fails
SpecLive ==
  /\ Init /\ [][Next]_vars
  /\ WF_vars(ParseRejected \/ ParseResolved)
  /\ WF_vars((\E message \in FailureMessages : CreateRejected(message)) \/ CreateResolved)
  /\ WF_vars(\E ok \in BOOLEAN : LoadSettled(ok))

-----------------------------------------------------------------------------
(* matchExcelHeaderToSchemaField applied to one header *)

AliasKeys == { EXCEL_HEADER_TO_SCHEMA[i][1] : i \in 1..Len(EXCEL_HEADER_TO_SCHEMA) }

SchemaFieldNames == { SCHEMA_FIELDS[i] : i \in 1..Len(SCHEMA_FIELDS) }

\* headers named in the comments of the source, the labels of FULL_EXPORT_HEADERS
\* and further headers a hand-made sheet can carry
SampleHeaders ==
  { "Name", "Blood Grou", "Aadhaar C", "Date of Bir", "Batch Num", "Dept Finali",
    "Marita", "Namadan Date of Initialisation", "Name of Sewadar/Sewadarni",
    "Residential Address", "Permanent Address", "Phone Number", "Blood Group",
    "Aadhar Number", "Date of Birth", "Age", "Badge ID", "Gender", "Badge Status",
    "Emergency Contact Number", "Department Finalised Name", "Marital Status",
    "R/O Village/Town/Locality/District", "Assigned To", "Date of Initiation (DOI)",
    "Initiated", "Initiation By", "Initiation Place", "Phone", "Full Name",
    "Favorite Color", "Namdaan D", "Constructor", "N", "", " ", "Sr No", "Remarks",
    "DOI", "Was Initiated", "Place of Initiation", "My assignedTo", "Phone No. 2",
    Undefined }

\* every alias cut off after n characters, as a column too narrow for it shows it
TruncatedAliases == UNION { { SubSeq(a, 1, n) : n \in 1..Len(a) } : a \in AliasKeys }

TestHeaders == SampleHeaders \cup AliasKeys \cup SchemaFieldNames \cup TruncatedAliases

MatchInit ==
  /\ ImportOff
  /\ SheetOff
  /\ AuthOff
  /\ DashOff
  /\ CallsOff
  /\ ServicesOff
  /\ mHeader \in TestHeaders
  /\ mResult = Undefined
  /\ mToken = ""
  /\ mPc = "ready"

MatchCall ==
  /\ mPc = "ready"
  /\ mToken' = normalizeHeader(mHeader)
  /\ mResult' = matchExcelHeaderToSchemaField(mHeader)
  /\ mPc' = "done"
  /\ UNCHANGED mHeader
  /\ UNCHANGED outsideMatch

MatchNext == MatchCall

SpecMatch == MatchInit /\ [][MatchNext]_vars

-----------------------------------------------------------------------------
(* Properties of the matcher *)

mNormalized == normalizeHeader(mHeader)

\* the fields owning the alias tokens that satisfy the test
OwnersOf(Test(_)) ==
  { EXCEL_HEADER_TO_SCHEMA[i][2] :
      i \in { j \in 1..Len(EXCEL_HEADER_TO_SCHEMA) : Test(EXCEL_HEADER_TO_SCHEMA[j][1]) } }

\* C5: when the normalized header equals a known alias token, the matcher
\* returns the field that owns that alias, whatever prefix, keyword or
\* substring relation the header has to other fields.
C5_ExactAliasSound ==
  (mPc = "done" /\ mNormalized \in AliasKeys)
    => OwnersOf(LAMBDA a : a = mNormalized) = { mResult }

\* an exact alias of one field that starts with an alias of another field and
\* contains a keyword has been matched to its owner
C5_Witness ==
  /\ mPc = "done" /\ mHeader = "namdaaninitiationby"
  /\ startsWith(mNormalized, "nam") /\ includes(mNormalized, "namdaan")
  /\ mResult = "NamdaanInitiationBy"

\* the result the five-tier ladder of the specification allows for a header
LadderResults(n) ==
  LET tier1 == OwnersOf(LAMBDA a : a = n)
      tier2 == IF Len(n) >= 2
               THEN OwnersOf(LAMBDA a : startsWith(a, n) \/ startsWith(n, a))
               ELSE {}
      tier3 == { f \in SchemaFieldNames : normalizeHeader(f) = n }
      tier4 == IF KeywordIndex(n) = {} THEN {}
               ELSE { KEYWORD_TO_SCHEMA[First(KeywordIndex(n))][2] }
      tier5 == { f \in SchemaFieldNames : includes(n, normalizeHeader(f)) }
  IN IF n = "" THEN { Undefined }
     ELSE IF tier1 # {} THEN tier1
     ELSE IF tier2 # {} THEN tier2
     ELSE IF tier3 # {} THEN tier3
     ELSE IF tier4 # {} THEN tier4
     ELSE IF tier5 # {} THEN tier5
     ELSE { Undefined }

\* C6: the matcher's result is the result of the first tier that hits, in the
\* order exact alias, prefix containment (length >= 2 only), exact schema
\* name, first keyword contained, schema name contained; a header that hits
\* no tier, or normalizes to the empty token, is unmapped.
C6_FirstTierWins ==
  mPc = "done" => mResult \in LadderResults(mNormalized)

\* C7: a normalized header of length >= 2 that is a prefix of a known alias
\* token is matched to the field of an alias it is a prefix of.
C7_TruncationRecovery ==
  (mPc = "done" /\ Len(mNormalized) >= 2
     /\ OwnersOf(LAMBDA a : startsWith(a, mNormalized)) # {})
    => mResult \in OwnersOf(LAMBDA a : startsWith(a, mNormalized))

\* C8: the header "Namadan Date of Initialisation", whose normalized form
\* contains a keyword of KEYWORD_TO_SCHEMA, is mapped to the field bound to
\* that keyword, NamdaanDOI.
C8_KeywordTierInitiationDate ==
  (mPc = "done" /\ mHeader = "Namadan Date of Initialisation")
    => (KeywordIndex(mNormalized) # {} /\ mResult = "NamdaanDOI")

\* C9: for every field f of SCHEMA_FIELDS, the matcher applied to the
\* canonical name of f returns f.
C9_CanonicalNameMapsToItself ==
  (mPc = "done" /\ mHeader \in SchemaFieldNames) => mResult = mHeader

\* the canonical name no alias covers has been matched, by the schema-name tier
C9_Witness ==
  /\ mPc = "done" /\ mHeader = "assignedTo" /\ mNormalized \notin AliasKeys
  /\ mResult = "assignedTo"

\* C20: for every raw header h, normalize(h) contains only lowercase ASCII
\* letters and digits; normalize("") and normalize(undefined) are the empty
\* token; and normalize is idempotent.
C20_NormalizeTokenShape ==
  mPc = "done" =>
    /\ CharsOf(mToken) \subseteq CharsOf(LowerChars) \cup CharsOf(DigitChars)
    /\ (mHeader \in { "", Undefined } => mToken = "")
    /\ normalizeHeader(mToken) = mToken

\* a header with capitals, blanks, a full stop and a digit has been normalized
C20_Witness ==
  mPc = "done" /\ mHeader = "Phone No. 2" /\ mToken = "phoneno2"

-----------------------------------------------------------------------------
(* Properties of handleImportExcel and createProspectsBulk *)

Range(seq) == { seq[i] : i \in 1..Len(seq) }

\* the sheet the running import was given, as parseExcelFileRaw returns it
hParsed == parseExcelFileRaw(h.file)

\* the running import got past the parse gate: headers and data rows exist
hHasData ==
  pc = "parse" /\ h.file.readable /\ Len(hParsed.headers) > 0 /\ Len(hParsed.rows) > 0

\* the required fields no header of the running import's sheet is matched to
hMissing ==
  { r \in Range(REQUIRED_IMPORT_FIELDS) :
      \A i \in 1..Len(hParsed.headers) :
        matchExcelHeaderToSchemaField(hParsed.headers[i]) # r }

\* the candidate records of the running import's sheet
hBatch ==
  LET built == buildProspectsFromMapping(hParsed.rows, buildAutoMapping(hParsed.headers))
  IN [ i \in 1..Len(built) |-> withAssignedTo(built[i]) ]

IsPermutation(a, b) ==
  /\ Len(a) = Len(b)
  /\ \E f \in Permutations(1..Len(a)) : \A i \in 1..Len(a) : a[i] = b[f[i]]

\* the last n documents of the collection
LastDocs(docs, n) == SubSeq(docs, Len(docs) - n + 1, Len(docs))

\* C1: a sheet with headers and data rows whose column mapping lacks a
\* required field is rejected at once: no candidate record is built, no
\* createDocument call is issued, the store and the fingerprint set are
\* unchanged, and the error names exactly the required fields that are missing.
C1_ValidatorFailFast ==
  [][ hHasData
        => \A missing \in { hMissing } :
             missing # {}
               => /\ pc' = "idle" /\ importing' = FALSE
                  /\ last'.outcome = "missing" /\ last'.batch = << >>
                  /\ createCalls' = createCalls /\ outstanding' = 0
                  /\ store' = store
                  /\ importedSignatures' = importedSignatures
                  /\ Range(last'.missing) = missing
                  /\ \A r \in Range(REQUIRED_IMPORT_FIELDS) :
                       includes(error', r) <=> r \in missing ]_vars

\* an import of a sheet that maps neither required field has been rejected
C1_Witness ==
  /\ last.outcome = "missing" /\ last.missing = << "fullName", "mobile" >>
  /\ last.headers = << "Address", "Age", "Gender" >>
  /\ includes(error, "fullName, mobile") /\ last.calls = 0 /\ pc = "idle"

\* C2: once a batch has been inserted, a sheet holding the same candidate
\* records in any row order is rejected as a duplicate and no further
\* createDocument call is issued.
C2_ReorderedBatchRejected ==
  [][ (pc = "parse" /\ h.file.readable /\ insertedBatches # {})
        => \A batch \in { hBatch } :
             (\E b \in insertedBatches : IsPermutation(b, batch))
               => /\ pc' = "idle"
                  /\ last'.outcome = "duplicate" /\ error' = MsgDuplicate
                  /\ createCalls' = createCalls /\ outstanding' = 0
                  /\ store' = store ]_vars

\* a two-row batch was inserted and the same rows in the other order rejected
C2_Witness ==
  /\ last.outcome = "duplicate" /\ last.calls = 0
  /\ Len(last.batch) = 2 /\ last.batch[1] # last.batch[2]
  /\ last.batch \notin insertedBatches
  /\ \E b \in insertedBatches : IsPermutation(b, last.batch)

\* C3: the fingerprint set changes only when the createDocument call of the
\* last record of the batch resolves, every record of the batch then being
\* stored, and it changes by the fingerprint of that batch; an import that
\* ends in any other way leaves the set as it was when the import started.
C3_SignatureOnlyAfterBulkInsert ==
  [][ /\ importedSignatures' # importedSignatures
          => /\ pc = "create" /\ h.k = Len(h.batch)
             /\ createCalls' - h.callsAtStart = Len(h.batch) /\ outstanding' = 0
             /\ Len(store') >= Len(h.batch)
             /\ LastDocs(store', Len(h.batch))
                  = [ i \in 1..Len(h.batch) |-> toDbProspect(h.batch[i]) ]
             /\ importedSignatures' = importedSignatures \cup { getImportSignature(h.batch) }
      /\ (pc # "idle" /\ pc' = "idle" /\ last'.outcome # "success")
          => importedSignatures' = h.sigs ]_vars

\* after a successful import, an import of another batch failed in the store
\* and its fingerprint is not in the set
C3_Witness ==
  /\ last.outcome = "insert_failed"
  /\ Cardinality(importedSignatures) = 1
  /\ getImportSignature(last.batch) \notin importedSignatures

C4_Sequential ==
  /\ outstanding \in { 0, 1 }
  /\ outstanding = 1 <=> pc = "create"
  /\ pc = "create"
       => /\ createCalls - h.callsAtStart = h.k
          /\ Len(store) >= h.k - 1
          /\ LastDocs(store, h.k - 1) = [ i \in 1..(h.k - 1) |-> toDbProspect(h.batch[i]) ]

C4_Step ==
  /\ Len(store') >= Len(store) /\ SubSeq(store', 1, Len(store)) = store
  /\ createCalls' # createCalls => (createCalls' = createCalls + 1 /\ outstanding' = 1)
  /\ (pc = "create" /\ Len(store') > Len(store))
       => store' = Append(store, toDbProspect(h.batch[h.k]))
  /\ (pc = "create" /\ store' = store)
       => /\ pc' = "idle" /\ createCalls' = createCalls /\ outstanding' = 0
          /\ last'.outcome = "insert_failed" /\ last'.calls = h.k
          /\ error' # ""

\* C4: createDocument calls are issued one record at a time in batch order,
\* never more than one outstanding; when the call for record k fails, records
\* 1..k-1 stay in the store, no later record is sent, nothing is removed and
\* the handler ends with the failure as its error, without another attempt.
C4_BulkInsertSequential == [] C4_Sequential /\ [][C4_Step]_vars

\* the call for the second record of a batch failed; the first one is stored
C4_Witness ==
  /\ last.outcome = "insert_failed" /\ last.calls = 2 /\ Len(last.batch) = 2
  /\ Len(store) = 1 /\ store[1] = toDbProspect(last.batch[1])
  /\ createCalls = 2 /\ error = "Network request failed"

\* the headers of the running import's sheet matched to mobile
hMobileHeaders ==
  { hParsed.headers[i] : i \in { j \in 1..Len(hParsed.headers) :
      matchExcelHeaderToSchemaField(hParsed.headers[j]) = "mobile" } }

\* C10 as stated: a header set with "Name" and "Phone" and no other
\* mobile-equivalent header is rejected with a message naming "mobile", and
\* no createDocument call occurs.
C10_NamePhoneRejected ==
  [][ (hHasData /\ { "Name", "Phone" } \subseteq Range(hParsed.headers)
         /\ hMobileHeaders \subseteq { "Phone" })
        => /\ last'.outcome = "missing" /\ includes(error', "mobile")
           /\ createCalls' = createCalls ]_vars

\* C10 amended: "Phone" is itself a mobile-equivalent header, so a header set
\* with "Name" and "Phone" passes the validator; a header set with "Name" and
\* no header matched to mobile is rejected with a message naming "mobile" as
\* the missing field, and no createDocument call occurs.
C10_NameWithoutMobileRejected ==
  [][ (hHasData /\ "Name" \in Range(hParsed.headers))
        => /\ "Phone" \in Range(hParsed.headers)
               => (pc' = "create" \/ last'.outcome \in { "duplicate", "config_error" })
           /\ hMobileHeaders = {}
               => /\ last'.outcome = "missing" /\ last'.missing = << "mobile" >>
                  /\ includes(error', "mobile") /\ ~ includes(error', "fullName")
                  /\ createCalls' = createCalls /\ store' = store
                  /\ pc' = "idle" ]_vars

\* a sheet with a "Name" column and no mobile column has been rejected
C10_Witness ==
  /\ last.outcome = "missing" /\ last.missing = << "mobile" >>
  /\ "Name" \in Range(last.headers) /\ last.calls = 0
  /\ includes(error, "Required columns not found: mobile.")

-----------------------------------------------------------------------------
(* buildAutoMapping and buildProspectsFromMapping applied to one sheet *)

\* data rows of the sheet under test
MaxSheetRows == 2

\* header rows as parseExcelFileRaw hands them on (trimmed)
SheetHeaderRows ==
  { << "Name", "Full Name" >>,
    << "Name", "Favorite Color", "Mobile" >>,
    << "Constructor", "Name", "Phone" >>,
    << "Nam", "Addr", "Phone", "Batch Num", "Blood" >>,
    << "Phone", "Mobile", "Phone Number" >>,
    << "Name", "Age", "Name" >>,
    << "Favorite Color" >>,
    << >> }

\* data rows, shorter and longer than the header row, with blank, padded and
\* missing cells
SheetDataRows ==
  { << "Alice", "Alicia" >>,
    << " Bob ", "", "7" >>,
    << "Ravi Kumar", "12 MG Road", "9998887777", "B12", "O+" >>,
    << Undefined, "x", " y" >>,
    << "Zed" >> }

SheetInit ==
  /\ ImportOff
  /\ MatchOff
  /\ AuthOff
  /\ DashOff
  /\ CallsOff
  /\ ServicesOff
  /\ sHeaders \in SheetHeaderRows
  /\ sRows \in SeqsUpTo(SheetDataRows, MaxSheetRows)
  /\ sMapping = << >>
  /\ sProspects = << >>
  /\ sPc = "ready"

\* const columnMapping = buildAutoMapping(headers)
SheetMap ==
  /\ sPc = "ready"
  /\ sMapping' = buildAutoMapping(sHeaders)
  /\ sPc' = "mapped"
  /\ UNCHANGED << sHeaders, sRows, sProspects >>
  /\ UNCHANGED outsideSheet

\* const prospects = buildProspectsFromMapping(rows, columnMapping)
SheetBuild ==
  /\ sPc = "mapped"
  /\ sProspects' = buildProspectsFromMapping(sRows, sMapping)
  /\ sPc' = "built"
  /\ UNCHANGED << sHeaders, sRows, sMapping >>
  /\ UNCHANGED outsideSheet

SheetNext == SheetMap \/ SheetBuild

SpecSheet == SheetInit /\ [][SheetNext]_vars

-----------------------------------------------------------------------------
(* Properties of the mapping builder and the materializer *)

\* the header of column i has no alias, prefix, schema-name, keyword or
\* substring relation to any field
sNoRelation(i) == LadderResults(normalizeHeader(sHeaders[i])) = { Undefined }

\* the cell of row r in column i as the materializer stores it
sCell(r, i) ==
  IF i > Len(sRows[r]) \/ sRows[r][i] = Undefined \/ sRows[r][i] = ""
  THEN "" ELSE trim(sRows[r][i])

\* C16: a header with no alias, keyword or substring relation to any field
\* (e.g. "Favorite Color") maps to unmapped, and for every row the
\* materialized candidate record contains no key or value contributed by an
\* unmapped column: each key and its value come from a column whose header
\* is related to a field.
C16_UnmappedContributesNothing ==
  /\ sPc \in { "mapped", "built" } =>
       \A i \in 1..Len(sHeaders) : sNoRelation(i) => sMapping[i] = Undefined
  /\ sPc = "built" =>
       \A r \in 1..Len(sProspects) : \A key \in DOMAIN sProspects[r] :
         \E i \in 1..Len(sHeaders) :
           /\ ~ sNoRelation(i)
           /\ sMapping[i] = key
           /\ sProspects[r][key] = sCell(r, i)

\* the columns of row r mapped to the field
sColumnsOf(field) == { i \in 1..Len(sMapping) : sMapping[i] = field }

Max(S) == CHOOSE x \in S : \A y \in S : y <= x

\* C17: last-write-wins in the materializer: for every row, when two or more
\* columns map to the same schema field, the candidate record's value for
\* that field is the trimmed cell of the highest-index such column; headers
\* ["Name","Full Name"] with row ["Alice","Alicia"] give fullName "Alicia".
C17_LastWriteWins ==
  sPc = "built" =>
    /\ \A r \in 1..Len(sRows) : \A field \in SchemaFieldNames :
         Cardinality(sColumnsOf(field)) >= 2 =>
           /\ r <= Len(sProspects) /\ field \in DOMAIN sProspects[r]
           /\ sProspects[r][field] = sCell(r, Max(sColumnsOf(field)))
    /\ (sHeaders = << "Name", "Full Name" >> /\ sRows = << << "Alice", "Alicia" >> >>)
         => sProspects = << [ fullName |-> "Alicia" ] >>

\* the sheet of the example has been materialized, and so has a sheet with
\* three columns of one field
C17_Witness ==
  /\ sPc = "built"
  /\ sHeaders = << "Name", "Full Name" >> /\ sRows = << << "Alice", "Alicia" >> >>
  /\ sMapping = << "fullName", "fullName" >>
  /\ sProspects[1].fullName = "Alicia"

\* C18: for every header sequence the mapping builder returns a sequence of
\* the same length in which element i is the matcher's result for header i
\* alone, and every element is a name of SCHEMA_FIELDS or unmapped.
C18_MappingShape ==
  sPc \in { "mapped", "built" } =>
    /\ Len(sMapping) = Len(sHeaders)
    /\ \A i \in 1..Len(sHeaders) :
         /\ sMapping[i] = matchExcelHeaderToSchemaField(sHeaders[i])
         /\ sMapping[i] \in SchemaFieldNames \cup { Undefined }

-----------------------------------------------------------------------------
(* Further properties of handleImportExcel *)

C15_UnreadableOrEmptyAborted ==
  [][ (pc = "parse"
         /\ \/ ~ h.file.readable
            \/ Len(hParsed.headers) = 0
            \/ Len(hParsed.rows) = 0)
        => /\ pc' = "idle" /\ importing' = FALSE
           /\ error' # ""
           /\ last'.outcome \in { "parse_error", "empty" } /\ last'.calls = 0
           /\ createCalls' = createCalls /\ outstanding' = 0
           /\ prospects' = prospects
           /\ store' = store
           /\ importedSignatures' = importedSignatures ]_vars

\* after a successful import filled the table, an unreadable file was rejected
\* and the table and the fingerprint set are still there
C15_Witness ==
  /\ last.outcome = "parse_error" /\ error = MsgUnreadable /\ pc = "idle"
  /\ prospects # << >> /\ importedSignatures # {} /\ Len(store) = Len(prospects)

\* the candidate record of the scenario as handleImportExcel hands it on
ScenarioProspect ==
  [ fullName |-> "Ravi Kumar", address |-> "12 MG Road", mobile |-> "9998887777",
    badgeId |-> "B12", bloodgroup |-> "O+", assignedTo |-> "" ]

\* C19: the sheet with headers ["Nam","Addr","Phone","Batch Num","Blood"] and
\* the single row ["Ravi Kumar","12 MG Road","9998887777","B12","O+"] gets the
\* column mapping [fullName,address,mobile,badgeId,bloodgroup] and one
\* candidate record with these five values, passes the validator, and, on a
\* configured store that has not seen the batch, leads to exactly one
\* createDocument call.
C19_EndToEndScenario ==
  /\ [][ (pc = "parse" /\ h.file = ScenarioFile)
           => IF configured /\ getImportSignature(<< ScenarioProspect >>) \notin importedSignatures
              THEN /\ pc' = "create"
                   /\ buildAutoMapping(h'.headers)
                        = << "fullName", "address", "mobile", "badgeId", "bloodgroup" >>
                   /\ h'.batch = << ScenarioProspect >>
                   /\ createCalls' = createCalls + 1
              ELSE /\ last'.outcome \in { "duplicate", "config_error" }
                   /\ last'.batch = << ScenarioProspect >>
                   /\ createCalls' = createCalls ]_vars
  /\ [][ (pc = "create" /\ h.headers = ScenarioHeaders)
           => /\ createCalls' = createCalls
              /\ pc' = "load" => store' = Append(store, toDbProspect(ScenarioProspect)) ]_vars
  /\ [] (last.headers = ScenarioHeaders
           => /\ last.outcome \in { "success", "insert_failed", "duplicate", "config_error" }
              /\ last.batch = << ScenarioProspect >>
              /\ last.outcome \in { "success", "insert_failed" } => last.calls = 1)

\* the scenario's sheet has been imported with one createDocument call
C19_Witness ==
  /\ last.headers = ScenarioHeaders /\ last.outcome = "success" /\ last.calls = 1
  /\ store = << toDbProspect(ScenarioProspect) >>
  /\ store[1].fullName = "Ravi Kumar" /\ store[1].batchNumber = "B12"

-----------------------------------------------------------------------------
(* AuthProvider: loadSession, login and logout, one action per run between awaits *)

\* the accounts of Appwrite Authentication
AuthAccounts ==
  { [ email |-> "admin@cb", password |-> "pw1", labels |-> { "admin" } ],
    [ email |-> "vol@cb", password |-> "pw2", labels |-> { } ] }

\* the documents of the Users collection
UsersDocs ==
  { [ id |-> "u1", email |-> "vol@cb", password |-> "pw2", role |-> "user" ],
    [ id |-> "u2", email |-> "lead@cb", password |-> "pw3", role |-> "admin" ],
    [ id |-> "u3", email |-> "help@cb", password |-> "pw4", role |-> "manager" ] }

\* what can be typed into the login form
LoginEmails == { "admin@cb", "vol@cb", "lead@cb", "help@cb" }

LoginPasswords == { "pw1", "pw2", "pw3", "pw4" }

AuthInit ==
  /\ ImportOff
  /\ MatchOff
  /\ SheetOff
  /\ ServicesOff
  /\ DashOff
  /\ CallsOff
  /\ usersConfigured \in BOOLEAN
  /\ rPath = "/login"
  /\ aSession = ""
  /\ aLocal = NoLocalAuth
  /\ aUser = NoUser
  /\ aRole = Null
  /\ aLoading = TRUE
  /\ aPc = "mount"
  /\ aArgs = NoArgs
  /\ aLast = "none"

\* the effect runs loadSession up to await account.get()
LoadSessionStart ==
  /\ aPc = "mount"
  /\ aLoading' = TRUE
  /\ aPc' = "ls_get"
  /\ UNCHANGED << rPath, usersConfigured, aSession, aLocal, aUser, aRole, aArgs, aLast >>
  /\ UNCHANGED outsideAuth

\* account.get() of loadSession settled: the session's account is admin,
\* otherwise the localStorage item decides
LoadSessionGot(ok) ==
  /\ aPc = "ls_get"
  /\ ok => aSession # ""
  /\ IF ok
       THEN /\ aUser' = [ source |-> "appwrite", email |-> aSession, id |-> aSession ]
            /\ aRole' = "admin"
       ELSE IF aLocal.email # "" /\ aLocal.role # ""
       THEN /\ aUser' = [ source |-> "database", email |-> aLocal.email, id |-> aLocal.id ]
            /\ aRole' = aLocal.role
       ELSE /\ aUser' = NoUser
            /\ aRole' = Null
  /\ aLoading' = FALSE
  /\ aPc' = "idle"
  /\ UNCHANGED << rPath, usersConfigured, aSession, aLocal, aArgs, aLast >>
  /\ UNCHANGED outsideAuth

\* handleSubmit of LoginPage calls login(email, password), which runs up to
\* await account.deleteSessions()
Login(email, password) ==
  /\ aPc = "idle"
  /\ rPath = "/login"
  /\ aLoading' = TRUE
  /\ aArgs' = [ email |-> email, password |-> password ]
  /\ aPc' = "li_delete"
  /\ UNCHANGED << rPath, usersConfigured, aSession, aLocal, aUser, aRole, aLast >>
  /\ UNCHANGED outsideAuth

\* deleteSessions settled (a failure is ignored); createEmailPasswordSession is called
LoginSessionsDeleted(ok) ==
  /\ aPc = "li_delete"
  /\ aSession' = IF ok THEN "" ELSE aSession
  /\ aPc' = "li_create"
  /\ UNCHANGED << rPath, usersConfigured, aLocal, aUser, aRole, aLoading, aArgs, aLast >>
  /\ UNCHANGED outsideAuth

\* createEmailPasswordSession resolved; account.get() is called
LoginSessionCreated ==
  /\ aPc = "li_create"
  /\ \E acc \in AuthAccounts : acc.email = aArgs.email /\ acc.password = aArgs.password
  /\ aSession' = aArgs.email
  /\ aPc' = "li_get"
  /\ UNCHANGED << rPath, usersConfigured, aLocal, aUser, aRole, aLoading, aArgs, aLast >>
  /\ UNCHANGED outsideAuth

\* catch (appwriteError): rethrown when the Users collection is not
\* configured, otherwise listDocuments by email and password is called
LoginFallback ==
  IF ~ usersConfigured
  THEN /\ aLoading' = FALSE
       /\ aPc' = "idle"
       /\ aLast' = "rejected"
       /\ aArgs' = NoArgs
  ELSE /\ aPc' = "li_list"
       /\ UNCHANGED << aLoading, aArgs, aLast >>

\* createEmailPasswordSession rejected: wrong credentials or no connection
LoginSessionRejected ==
  /\ aPc = "li_create"
  /\ LoginFallback
  /\ UNCHANGED << rPath, usersConfigured, aSession, aLocal, aUser, aRole >>
  /\ UNCHANGED outsideAuth

\* account.get() of login settled: the account is made admin and LoginPage
\* navigates to the admin dashboard, or the rejection goes to the same catch block
LoginGot(ok) ==
  /\ aPc = "li_get"
  /\ IF ok
       THEN /\ aUser' = [ source |-> "appwrite", email |-> aSession, id |-> aSession ]
            /\ aRole' = "admin"
            /\ aLocal' = NoLocalAuth
            /\ aLoading' = FALSE
            /\ aPc' = "idle"
            /\ aLast' = "appwrite"
            /\ aArgs' = NoArgs
            /\ rPath' = "/admin/dashboard"
       ELSE /\ LoginFallback
            /\ UNCHANGED << aLocal, aUser, aRole, rPath >>
  /\ UNCHANGED << usersConfigured, aSession >>
  /\ UNCHANGED outsideAuth

\* doc.role === 'admin' || doc.role === 'user' ? doc.role : 'user'
userRoleOf(doc) == IF doc.role = "admin" \/ doc.role = "user" THEN doc.role ELSE "user"

\* listDocuments of login settled: the first document found gives the role
\* and LoginPage navigates by it; no document, or a rejection, makes login throw
LoginListed(ok) ==
  /\ aPc = "li_list"
  /\ LET found == { doc \in UsersDocs :
                      doc.email = aArgs.email /\ doc.password = aArgs.password }
     IN IF ok /\ found # {}
        THEN \E doc \in found :
               /\ aUser' = [ source |-> "database", email |-> doc.email, id |-> doc.id ]
               /\ aRole' = userRoleOf(doc)
               /\ aLocal' = [ email |-> doc.email, id |-> doc.id, role |-> userRoleOf(doc) ]
               /\ aLast' = "database"
               /\ rPath' = IF userRoleOf(doc) = "admin" THEN "/admin/dashboard" ELSE "/user"
        ELSE /\ aLast' = "rejected"
             /\ UNCHANGED << aLocal, aUser, aRole, rPath >>
  /\ aLoading' = FALSE
  /\ aPc' = "idle"
  /\ aArgs' = NoArgs
  /\ UNCHANGED << usersConfigured, aSession >>
  /\ UNCHANGED outsideAuth

\* logout() up to await account.deleteSessions()
Logout ==
  /\ aPc = "idle"
  /\ aLoading' = TRUE
  /\ aPc' = "lo_delete"
  /\ UNCHANGED << rPath, usersConfigured, aSession, aLocal, aUser, aRole, aArgs, aLast >>
  /\ UNCHANGED outsideAuth

\* deleteSessions of logout settled; the finally block clears the state
LogoutSettled(ok) ==
  /\ aPc = "lo_delete"
  /\ aSession' = IF ok THEN "" ELSE aSession
  /\ aLocal' = NoLocalAuth
  /\ aUser' = NoUser
  /\ aRole' = Null
  /\ aLoading' = FALSE
  /\ aPc' = "idle"
  /\ aLast' = "logout"
  /\ UNCHANGED << rPath, usersConfigured, aArgs >>
  /\ UNCHANGED outsideAuth

\* the page is loaded again: AuthProvider is mounted anew, cookies and
\* localStorage stay
Reload ==
  /\ aPc = "idle"
  /\ aUser' = NoUser
  /\ aRole' = Null
  /\ aLoading' = TRUE
  /\ aPc' = "mount"
  /\ UNCHANGED << rPath, usersConfigured, aSession, aLocal, aArgs, aLast >>
  /\ UNCHANGED outsideAuth

\* the locations tried: the routes of App, a path the sidebar of the user
\* dashboard links to, and a path no route knows
RoutePaths ==
  { "/login", "/admin", "/admin/dashboard", "/user", "/user/prospects-details",
    "/nowhere" }

\* what a route renders: a page, the "Checking access" placeholder, or <Navigate>
Page(name) == [ kind |-> "page", to |-> "", page |-> name ]

Checking == [ kind |-> "checking", to |-> "", page |-> "" ]

NavigateTo(path) == [ kind |-> "navigate", to |-> path, page |-> "" ]

ProtectedRoute(children, requiredRole) ==
  IF aLoading THEN Checking
  ELSE IF aUser = NoUser THEN NavigateTo("/login")
  ELSE IF requiredRole # "" /\ aRole # requiredRole
    THEN IF aRole = "admin" THEN NavigateTo("/admin/dashboard")
         ELSE IF aRole = "user" THEN NavigateTo("/user/prospects-details")
         ELSE NavigateTo("/login")
  ELSE children

\* <Routes> of App: /login, /admin with its index and dashboard children,
\* /user, and the catch-all
App(path) ==
  IF path = "/login" THEN Page("LoginPage")
  ELSE IF path \in { "/admin", "/admin/dashboard" }
    THEN ProtectedRoute(Page("AdminDashboard"), "admin")
  ELSE IF path = "/user" THEN ProtectedRoute(Page("UserDashboard"), "user")
  ELSE NavigateTo("/login")

\* a link is followed or an address is typed
Visit(path) ==
  /\ aPc # "off"
  /\ rPath' = path
  /\ UNCHANGED << usersConfigured, aSession, aLocal, aUser, aRole, aLoading, aPc,
                  aArgs, aLast >>
  /\ UNCHANGED outsideAuth

\* the element rendered at the location is <Navigate to=... replace />
Redirect ==
  /\ aPc # "off"
  /\ App(rPath).kind = "navigate"
  /\ rPath' = App(rPath).to
  /\ UNCHANGED << usersConfigured, aSession, aLocal, aUser, aRole, aLoading, aPc,
                  aArgs, aLast >>
  /\ UNCHANGED outsideAuth

AuthNext ==
  \/ \E path \in RoutePaths : Visit(path)
  \/ Redirect
  \/ LoadSessionStart
  \/ \E ok \in BOOLEAN : LoadSessionGot(ok)
  \/ \E email \in LoginEmails, password \in LoginPasswords : Login(email, password)
  \/ \E ok \in BOOLEAN : LoginSessionsDeleted(ok)
  \/ LoginSessionCreated
  \/ LoginSessionRejected
  \/ \E ok \in BOOLEAN : LoginGot(ok)
  \/ \E ok \in BOOLEAN : LoginListed(ok)
  \/ Logout
  \/ \E ok \in BOOLEAN : LogoutSettled(ok)
  \/ Reload

SpecAuth == AuthInit /\ [][AuthNext]_vars

-----------------------------------------------------------------------------
(* Properties of the auth provider *)

\* C11: the role of a logged-in account is the role of that user's document
\* in the Users collection, and only when that collection is not configured
\* the role its labels give (admin label means admin); no account holds the
\* admin role unless its document, or without the collection its label, says so.
C11_RoleFromUsersLookup ==
  (aPc = "idle" /\ aUser # NoUser)
    => IF usersConfigured
       THEN \E doc \in UsersDocs : doc.email = aUser.email /\ aRole = userRoleOf(doc)
       ELSE \E acc \in AuthAccounts :
              /\ acc.email = aUser.email
              /\ aRole = IF "admin" \in acc.labels THEN "admin" ELSE "user"

\* the role a route of App requires
RequiredRoleAt(path) == IF path = "/user" THEN "user" ELSE "admin"

\* the dashboard of a role
DashboardOf(role) ==
  IF role = "admin" THEN Page("AdminDashboard") ELSE Page("UserDashboard")

\* C26: at a protected location the children are rendered only when the
\* session load has finished, a user is present and the session role is the
\* required one; while loading neither children nor a redirect is rendered,
\* with no user the redirect goes to /login, and with a different role it
\* goes to a location that shows that role's own dashboard (or to /login if
\* the role is neither admin nor user).
C26_ProtectedRouteDecision ==
  rPath \in { "/admin", "/admin/dashboard", "/user" } =>
    \E requiredRole \in { RequiredRoleAt(rPath) } :
    \E shown \in { App(rPath) } :
      /\ shown.kind = "page"
           <=> (~ aLoading /\ aUser # NoUser /\ aRole = requiredRole)
      /\ shown.kind = "page" => shown = DashboardOf(requiredRole)
      /\ aLoading => shown = Checking
      /\ (~ aLoading /\ aUser = NoUser) => shown = NavigateTo("/login")
      /\ (~ aLoading /\ aUser # NoUser /\ aRole # requiredRole)
           => /\ shown.kind = "navigate"
              /\ IF aRole \in { "admin", "user" }
                   THEN App(shown.to) = DashboardOf(aRole)
                   ELSE shown.to = "/login"

\* C27: once logout has returned, whether or not deleteSessions succeeded,
\* user and role are null, the localStorage entry is removed and loading is
\* false, and until someone logs in again no session load on a page reload
\* brings back an authenticated user.
C27_LogoutEndsSession ==
  aLast = "logout" =>
    /\ aUser = NoUser
    /\ aRole = Null
    /\ aLocal = NoLocalAuth
    /\ aPc = "idle" => aLoading = FALSE

-----------------------------------------------------------------------------
(* prospectsService, usersService and badgesService: one action per run
   between awaits of each exported function *)

\* service functions called per run
MaxServiceCalls == 2

DEFAULT_BADGES ==
  [ open |-> 40, permanent |-> 22, elderly |-> 8, sangat |-> 15, newProspects |-> 18 ]

MsgUsersNotConfigured == "Appwrite users collection is not configured."

MsgBadgesNotConfigured == "Appwrite badge counts collection is not configured."

MsgUserExists == "A user with this email already exists."

\* message of the exception of a request the store did not fulfil
MsgStoreFailure == "Network request failed"

\* !databaseId || !<collection>Id is false
Configured(collection) == svcConfigured.databaseId /\ svcConfigured[collection]

\* document ids the id generators of createProspect and createUser produce
ProspectDocIds == { "prospect_1", "prospect_2" }

UserDocIds == { "user_1", "user_2" }

\* arguments of the calls
ServiceEmails == { "vol@cb", "lead@cb" }

ServiceRoles == { "admin", "user", "manager" }

BadgeInputs ==
  { [ open |-> 41, permanent |-> 22, elderly |-> 8, sangat |-> 15, newProspects |-> 18 ],
    [ open |-> 0, permanent |-> 0, elderly |-> 0, sangat |-> 0, newProspects |-> 1 ] }

\* a badge document made in the console, with one attribute only
ConsoleBadgeDoc == [ id |-> "console", counts |-> [ open |-> 7 ] ]

IdsOf(docs) == { doc.id : doc \in docs }

ServicesInit ==
  /\ ImportOff
  /\ MatchOff
  /\ SheetOff
  /\ AuthOff
  /\ DashOff
  /\ CallsOff
  /\ svcConfigured \in [ databaseId : BOOLEAN, prospects : BOOLEAN, users : BOOLEAN,
                          badges : BOOLEAN ]
  /\ svcProspects = {}
  /\ svcUsers = {}
  /\ svcBadges \in { << >>, << ConsoleBadgeDoc >> }
  /\ svcCall = NoCall
  /\ svcResult = NoResult
  /\ svcRequests = 0
  /\ svcCalls = 0
  /\ svcPeer = NoCall
  /\ svcPeerResult = NoResult

\* a service function is called
Begin ==
  /\ svcCall.step = "idle" /\ svcCalls < MaxServiceCalls
  /\ svcCalls' = svcCalls + 1

\* the function returns or throws before any request
Immediately(result) ==
  /\ svcResult' = result
  /\ svcCall' = NoCall
  /\ svcRequests' = 0

\* the function sends its first request and awaits it
FirstRequest(call) ==
  /\ svcCall' = call
  /\ svcResult' = NoResult
  /\ svcRequests' = 1

\* the awaited request settled and the function returns or throws
Finally(result) ==
  /\ svcResult' = result
  /\ svcCall' = NoCall
  /\ UNCHANGED << svcRequests, svcCalls >>

Returned(op) == [ NoResult EXCEPT !.op = op, !.kind = "returned" ]

Threw(op, message) == [ NoResult EXCEPT !.op = op, !.kind = "threw", !.message = message ]

\* the documents of a collection as listDocuments returns them
AsSequence(docs) ==
  CHOOSE seq \in [ 1..Cardinality(docs) -> docs ] : \A d \in docs : \E i \in DOMAIN seq : seq[i] = d

\* listProspects: an empty list without a configured collection
ListProspects ==
  /\ Begin
  /\ IF ~ Configured("prospects")
       THEN Immediately(Returned("listProspects"))
       ELSE FirstRequest([ NoCall EXCEPT !.op = "listProspects", !.step = "list" ])
  /\ UNCHANGED << svcPeer, svcPeerResult, svcConfigured, svcProspects, svcUsers, svcBadges >>
  /\ UNCHANGED outsideServices

\* listDocuments settled: a failure is logged and turned into an empty list
ListProspectsSettled(ok) ==
  /\ svcCall.op = "listProspects" /\ svcCall.step = "list"
  /\ Finally([ Returned("listProspects") EXCEPT
                 !.documents = IF ok THEN AsSequence(svcProspects) ELSE << >> ])
  /\ UNCHANGED << svcPeer, svcPeerResult, svcConfigured, svcProspects, svcUsers, svcBadges >>
  /\ UNCHANGED outsideServices

\* mutant: createProspect without the configuration check
CreateProspect_unchecked(p) ==
  /\ Begin
  /\ \E docId \in ProspectDocIds \ IdsOf(svcProspects) :
        FirstRequest([ NoCall EXCEPT !.op = "createProspect", !.step = "create",
                                     !.id = docId, !.data = toDbProspect(p) ])
  /\ UNCHANGED << svcPeer, svcPeerResult, svcConfigured, svcProspects, svcUsers, svcBadges >>
  /\ UNCHANGED outsideServices

\* createProspect up to await databases.createDocument
CreateProspect(p) ==
  /\ Begin
  /\ IF ~ Configured("prospects")
       THEN Immediately(Threw("createProspect", MsgNotConfigured))
       ELSE \E docId \in ProspectDocIds \ IdsOf(svcProspects) :
              FirstRequest([ NoCall EXCEPT !.op = "createProspect", !.step = "create",
                                           !.id = docId, !.data = toDbProspect(p) ])
  /\ UNCHANGED << svcPeer, svcPeerResult, svcConfigured, svcProspects, svcUsers, svcBadges >>
  /\ UNCHANGED outsideServices

CreateProspectSettled(ok) ==
  /\ svcCall.op = "createProspect" /\ svcCall.step = "create"
  /\ IF ok
       THEN /\ svcProspects' = svcProspects \cup { [ id |-> svcCall.id, data |-> svcCall.data ] }
            /\ Finally([ Returned("createProspect") EXCEPT !.id = svcCall.id ])
       ELSE /\ Finally(Threw("createProspect", MsgStoreFailure))
            /\ UNCHANGED svcProspects
  /\ UNCHANGED << svcPeer, svcPeerResult, svcConfigured, svcUsers, svcBadges >>
  /\ UNCHANGED outsideServices

\* updateProspect(documentId, { assignedTo }) up to await databases.updateDocument
UpdateProspect(documentId, assignedTo) ==
  /\ Begin
  /\ IF ~ Configured("prospects")
       THEN Immediately(Threw("updateProspect", MsgNotConfigured))
       ELSE FirstRequest([ NoCall EXCEPT !.op = "updateProspect", !.step = "update",
                                         !.id = documentId, !.email = assignedTo ])
  /\ UNCHANGED << svcPeer, svcPeerResult, svcConfigured, svcProspects, svcUsers, svcBadges >>
  /\ UNCHANGED outsideServices

\* updateDocument settled; the store rejects the id of no document
UpdateProspectSettled(ok) ==
  /\ svcCall.op = "updateProspect" /\ svcCall.step = "update"
  /\ ok => svcCall.id \in IdsOf(svcProspects)
  /\ IF ok
       THEN /\ svcProspects' =
                 { IF doc.id = svcCall.id
                   THEN [ doc EXCEPT !.data = [ doc.data EXCEPT !.assignedTo = svcCall.email ] ]
                   ELSE doc : doc \in svcProspects }
            /\ Finally(Returned("updateProspect"))
       ELSE /\ Finally(Threw("updateProspect", MsgStoreFailure))
            /\ UNCHANGED svcProspects
  /\ UNCHANGED << svcPeer, svcPeerResult, svcConfigured, svcUsers, svcBadges >>
  /\ UNCHANGED outsideServices

\* deleteProspect(documentId) up to await databases.deleteDocument
DeleteProspect(documentId) ==
  /\ Begin
  /\ IF ~ Configured("prospects")
       THEN Immediately(Threw("deleteProspect", MsgNotConfigured))
       ELSE FirstRequest([ NoCall EXCEPT !.op = "deleteProspect", !.step = "delete",
                                         !.id = documentId ])
  /\ UNCHANGED << svcPeer, svcPeerResult, svcConfigured, svcProspects, svcUsers, svcBadges >>
  /\ UNCHANGED outsideServices

DeleteProspectSettled(ok) ==
  /\ svcCall.op = "deleteProspect" /\ svcCall.step = "delete"
  /\ ok => svcCall.id \in IdsOf(svcProspects)
  /\ IF ok
       THEN /\ svcProspects' = { doc \in svcProspects : doc.id # svcCall.id }
            /\ Finally(Returned("deleteProspect"))
       ELSE /\ Finally(Threw("deleteProspect", MsgStoreFailure))
            /\ UNCHANGED svcProspects
  /\ UNCHANGED << svcPeer, svcPeerResult, svcConfigured, svcUsers, svcBadges >>
  /\ UNCHANGED outsideServices

\* createUser(email, password, role) up to the listDocuments that looks for the email
CreateUser(email, role) ==
  /\ Begin
  /\ IF ~ Configured("users")
       THEN Immediately(Threw("createUser", MsgUsersNotConfigured))
       ELSE FirstRequest([ NoCall EXCEPT !.op = "createUser", !.step = "list",
                                         !.email = email, !.role = role ])
  /\ UNCHANGED << svcPeer, svcPeerResult, svcConfigured, svcProspects, svcUsers, svcBadges >>
  /\ UNCHANGED outsideServices

\* the listDocuments of createUser settled: a document found makes it throw,
\* a failed query is passed over, and createDocument is called
CreateUserListed(ok) ==
  /\ svcCall.op = "createUser" /\ svcCall.step = "list"
  /\ IF ok /\ \E doc \in svcUsers : doc.email = svcCall.email
       THEN Finally(Threw("createUser", MsgUserExists))
       ELSE /\ \E documentId \in UserDocIds \ IdsOf(svcUsers) :
                 svcCall' = [ svcCall EXCEPT !.step = "create", !.id = documentId ]
            /\ svcRequests' = svcRequests + 1
            /\ UNCHANGED << svcResult, svcCalls >>
  /\ UNCHANGED << svcPeer, svcPeerResult, svcConfigured, svcProspects, svcUsers, svcBadges >>
  /\ UNCHANGED outsideServices

CreateUserSettled(ok) ==
  /\ svcCall.op = "createUser" /\ svcCall.step = "create"
  /\ ok => svcCall.id \notin IdsOf(svcUsers)
  /\ IF ok
       THEN /\ svcUsers' = svcUsers \cup
                 { [ id |-> svcCall.id, email |-> svcCall.email, password |-> "pw",
                     role |-> IF svcCall.role = "admin" THEN "admin" ELSE "user" ] }
            /\ Finally([ Returned("createUser") EXCEPT !.id = svcCall.id ])
       ELSE /\ Finally(Threw("createUser", MsgStoreFailure))
            /\ UNCHANGED svcUsers
  /\ UNCHANGED << svcPeer, svcPeerResult, svcConfigured, svcProspects, svcBadges >>
  /\ UNCHANGED outsideServices

\* listUsers: an empty list without a configured collection
ListUsers ==
  /\ Begin
  /\ IF ~ Configured("users")
       THEN Immediately(Returned("listUsers"))
       ELSE FirstRequest([ NoCall EXCEPT !.op = "listUsers", !.step = "list" ])
  /\ UNCHANGED << svcPeer, svcPeerResult, svcConfigured, svcProspects, svcUsers, svcBadges >>
  /\ UNCHANGED outsideServices

ListUsersSettled(ok) ==
  /\ svcCall.op = "listUsers" /\ svcCall.step = "list"
  /\ Finally([ Returned("listUsers") EXCEPT
                 !.documents = IF ok THEN AsSequence(svcUsers) ELSE << >> ])
  /\ UNCHANGED << svcPeer, svcPeerResult, svcConfigured, svcProspects, svcUsers, svcBadges >>
  /\ UNCHANGED outsideServices

\* deleteUser(userId) up to await databases.deleteDocument
DeleteUser(userId) ==
  /\ Begin
  /\ IF ~ Configured("users")
       THEN Immediately(Threw("deleteUser", MsgUsersNotConfigured))
       ELSE FirstRequest([ NoCall EXCEPT !.op = "deleteUser", !.step = "delete",
                                         !.id = userId ])
  /\ UNCHANGED << svcPeer, svcPeerResult, svcConfigured, svcProspects, svcUsers, svcBadges >>
  /\ UNCHANGED outsideServices

DeleteUserSettled(ok) ==
  /\ svcCall.op = "deleteUser" /\ svcCall.step = "delete"
  /\ ok => svcCall.id \in IdsOf(svcUsers)
  /\ IF ok
       THEN /\ svcUsers' = { doc \in svcUsers : doc.id # svcCall.id }
            /\ Finally(Returned("deleteUser"))
       ELSE /\ Finally(Threw("deleteUser", MsgStoreFailure))
            /\ UNCHANGED svcUsers
  /\ UNCHANGED << svcPeer, svcPeerResult, svcConfigured, svcProspects, svcBadges >>
  /\ UNCHANGED outsideServices

\* Number(doc.<key> ?? DEFAULT_BADGES.<key>) for every key
countsOf(doc) ==
  [ key \in DOMAIN DEFAULT_BADGES |->
      IF key \in DOMAIN doc.counts THEN doc.counts[key] ELSE DEFAULT_BADGES[key] ]

\* fetchBadgeCounts: getBadgeDocument returns null without a configured
\* collection, and the defaults are returned
FetchBadgeCounts ==
  /\ Begin
  /\ IF ~ Configured("badges")
       THEN Immediately([ Returned("fetchBadgeCounts") EXCEPT
                           !.counts = DEFAULT_BADGES, !.source = "default" ])
       ELSE FirstRequest([ NoCall EXCEPT !.op = "fetchBadgeCounts", !.step = "list" ])
  /\ UNCHANGED << svcPeer, svcPeerResult, svcConfigured, svcProspects, svcUsers, svcBadges >>
  /\ UNCHANGED outsideServices

\* the listDocuments of getBadgeDocument settled: the first document gives the
\* counts; no document, or a failure, gives the defaults
FetchBadgeCountsSettled(ok) ==
  /\ svcCall.op = "fetchBadgeCounts" /\ svcCall.step = "list"
  /\ IF ok /\ svcBadges # << >>
       THEN Finally([ Returned("fetchBadgeCounts") EXCEPT
                       !.counts = countsOf(svcBadges[1]), !.source = "database",
                       !.id = svcBadges[1].id ])
       ELSE Finally([ Returned("fetchBadgeCounts") EXCEPT
                       !.counts = DEFAULT_BADGES, !.source = "default" ])
  /\ UNCHANGED << svcPeer, svcPeerResult, svcConfigured, svcProspects, svcUsers, svcBadges >>
  /\ UNCHANGED outsideServices

\* saveBadgeCounts(updatedCounts) up to await getBadgeDocument()
SaveBadgeCounts(updatedCounts) ==
  /\ Begin
  /\ IF ~ Configured("badges")
       THEN Immediately(Threw("saveBadgeCounts", MsgBadgesNotConfigured))
       ELSE FirstRequest([ NoCall EXCEPT !.op = "saveBadgeCounts", !.step = "list",
                                         !.data = updatedCounts ])
  /\ UNCHANGED << svcPeer, svcPeerResult, svcConfigured, svcProspects, svcUsers, svcBadges >>
  /\ UNCHANGED outsideServices

\* mutant: the document is created under a generated id, as createUser does
SaveBadgeCountsListed_generatedId(ok) ==
  /\ svcCall.op = "saveBadgeCounts" /\ svcCall.step = "list"
  /\ IF ~ ok
       THEN Finally(Threw("saveBadgeCounts", MsgStoreFailure))
       ELSE /\ svcCall' = IF svcBadges # << >>
                          THEN [ svcCall EXCEPT !.step = "update", !.id = svcBadges[1].id ]
                          ELSE [ svcCall EXCEPT !.step = "create", !.id = "badge_1" ]
            /\ svcRequests' = svcRequests + 1
            /\ UNCHANGED << svcResult, svcCalls >>
  /\ UNCHANGED << svcPeer, svcPeerResult, svcConfigured, svcProspects, svcUsers, svcBadges >>
  /\ UNCHANGED outsideServices

\* getBadgeDocument settled: updateDocument on the first document, or
\* createDocument with the id badge-counts; a failure leaves saveBadgeCounts
SaveBadgeCountsListed(ok) ==
  /\ svcCall.op = "saveBadgeCounts" /\ svcCall.step = "list"
  /\ IF ~ ok
       THEN Finally(Threw("saveBadgeCounts", MsgStoreFailure))
       ELSE /\ svcCall' = IF svcBadges # << >>
                          THEN [ svcCall EXCEPT !.step = "update", !.id = svcBadges[1].id ]
                          ELSE [ svcCall EXCEPT !.step = "create", !.id = "badge-counts" ]
            /\ svcRequests' = svcRequests + 1
            /\ UNCHANGED << svcResult, svcCalls >>
  /\ UNCHANGED << svcPeer, svcPeerResult, svcConfigured, svcProspects, svcUsers, svcBadges >>
  /\ UNCHANGED outsideServices

\* updateDocument or createDocument of saveBadgeCounts settled; the store
\* rejects the update of no document and the creation of an id in use
SaveBadgeCountsSettled(ok) ==
  /\ svcCall.op = "saveBadgeCounts" /\ svcCall.step \in { "update", "create" }
  /\ LET pos == { i \in 1..Len(svcBadges) : svcBadges[i].id = svcCall.id }
     IN /\ ok => (svcCall.step = "update" <=> pos # {})
        /\ IF ok
             THEN /\ svcBadges' =
                       IF svcCall.step = "create"
                       THEN Append(svcBadges, [ id |-> svcCall.id, counts |-> svcCall.data ])
                       ELSE [ i \in 1..Len(svcBadges) |->
                                IF i \in pos
                                THEN [ svcBadges[i] EXCEPT !.counts =
                                         [ key \in DOMAIN svcBadges[i].counts \cup DOMAIN svcCall.data |->
                                             IF key \in DOMAIN svcCall.data
                                             THEN svcCall.data[key] ELSE svcBadges[i].counts[key] ] ]
                                ELSE svcBadges[i] ]
                  /\ Finally([ Returned("saveBadgeCounts") EXCEPT !.id = svcCall.id ])
             ELSE /\ Finally(Threw("saveBadgeCounts", MsgStoreFailure))
                  /\ UNCHANGED svcBadges
  /\ UNCHANGED << svcPeer, svcPeerResult, svcConfigured, svcProspects, svcUsers >>
  /\ UNCHANGED outsideServices

\* saveBadgeCounts(updatedCounts) in a second admin session, up to await
\* getBadgeDocument()
PeerSaveBadgeCounts(updatedCounts) ==
  /\ svcPeer.step = "idle" /\ svcCalls < MaxServiceCalls
  /\ svcCalls' = svcCalls + 1
  /\ IF ~ Configured("badges")
       THEN /\ svcPeerResult' = Threw("saveBadgeCounts", MsgBadgesNotConfigured)
            /\ UNCHANGED svcPeer
       ELSE /\ svcPeer' = [ NoCall EXCEPT !.op = "saveBadgeCounts", !.step = "list",
                                          !.data = updatedCounts ]
            /\ svcPeerResult' = NoResult
  /\ UNCHANGED << svcConfigured, svcProspects, svcUsers, svcBadges, svcCall, svcResult,
                  svcRequests >>
  /\ UNCHANGED outsideServices

\* getBadgeDocument of that session settled
PeerSaveBadgeCountsListed(ok) ==
  /\ svcPeer.op = "saveBadgeCounts" /\ svcPeer.step = "list"
  /\ IF ~ ok
       THEN /\ svcPeerResult' = Threw("saveBadgeCounts", MsgStoreFailure)
            /\ svcPeer' = NoCall
       ELSE /\ svcPeer' = IF svcBadges # << >>
                          THEN [ svcPeer EXCEPT !.step = "update", !.id = svcBadges[1].id ]
                          ELSE [ svcPeer EXCEPT !.step = "create", !.id = "badge-counts" ]
            /\ UNCHANGED svcPeerResult
  /\ UNCHANGED << svcConfigured, svcProspects, svcUsers, svcBadges, svcCall, svcResult,
                  svcRequests, svcCalls >>
  /\ UNCHANGED outsideServices

\* updateDocument or createDocument of that session settled
PeerSaveBadgeCountsSettled(ok) ==
  /\ svcPeer.op = "saveBadgeCounts" /\ svcPeer.step \in { "update", "create" }
  /\ LET pos == { i \in 1..Len(svcBadges) : svcBadges[i].id = svcPeer.id }
     IN /\ ok => (svcPeer.step = "update" <=> pos # {})
        /\ IF ok
             THEN /\ svcBadges' =
                       IF svcPeer.step = "create"
                       THEN Append(svcBadges, [ id |-> svcPeer.id, counts |-> svcPeer.data ])
                       ELSE [ i \in 1..Len(svcBadges) |->
                                IF i \in pos
                                THEN [ svcBadges[i] EXCEPT !.counts =
                                         [ key \in DOMAIN svcBadges[i].counts \cup DOMAIN svcPeer.data |->
                                             IF key \in DOMAIN svcPeer.data
                                             THEN svcPeer.data[key] ELSE svcBadges[i].counts[key] ] ]
                                ELSE svcBadges[i] ]
                  /\ svcPeerResult' = [ Returned("saveBadgeCounts") EXCEPT !.id = svcPeer.id ]
             ELSE /\ svcPeerResult' = Threw("saveBadgeCounts", MsgStoreFailure)
                  /\ UNCHANGED svcBadges
  /\ svcPeer' = NoCall
  /\ UNCHANGED << svcConfigured, svcProspects, svcUsers, svcCall, svcResult, svcRequests,
                  svcCalls >>
  /\ UNCHANGED outsideServices

ServicesNext ==
  \/ ListProspects
  \/ \E ok \in BOOLEAN : ListProspectsSettled(ok)
  \/ CreateProspect(ScenarioProspect)
  \/ \E ok \in BOOLEAN : CreateProspectSettled(ok)
  \/ \E documentId \in ProspectDocIds, assignedTo \in ServiceEmails \cup { "" } :
        UpdateProspect(documentId, assignedTo)
  \/ \E ok \in BOOLEAN : UpdateProspectSettled(ok)
  \/ \E documentId \in ProspectDocIds : DeleteProspect(documentId)
  \/ \E ok \in BOOLEAN : DeleteProspectSettled(ok)
  \/ \E email \in ServiceEmails, role \in ServiceRoles : CreateUser(email, role)
  \/ \E ok \in BOOLEAN : CreateUserListed(ok)
  \/ \E ok \in BOOLEAN : CreateUserSettled(ok)
  \/ ListUsers
  \/ \E ok \in BOOLEAN : ListUsersSettled(ok)
  \/ \E userId \in UserDocIds : DeleteUser(userId)
  \/ \E ok \in BOOLEAN : DeleteUserSettled(ok)
  \/ FetchBadgeCounts
  \/ \E ok \in BOOLEAN : FetchBadgeCountsSettled(ok)
  \/ \E updatedCounts \in BadgeInputs : SaveBadgeCounts(updatedCounts)
  \/ \E ok \in BOOLEAN : SaveBadgeCountsListed(ok)
  \/ \E ok \in BOOLEAN : SaveBadgeCountsSettled(ok)
  \/ \E updatedCounts \in BadgeInputs : PeerSaveBadgeCounts(updatedCounts)
  \/ \E ok \in BOOLEAN : PeerSaveBadgeCountsListed(ok)
  \/ \E ok \in BOOLEAN : PeerSaveBadgeCountsSettled(ok)

SpecServices == ServicesInit /\ [][ServicesNext]_vars

-----------------------------------------------------------------------------
(* Properties of the service functions *)

\* the collection a service function works on
CollectionOf(op) ==
  IF op \in { "listProspects", "createProspect", "updateProspect", "deleteProspect" }
    THEN "prospects"
  ELSE IF op \in { "createUser", "listUsers", "deleteUser" } THEN "users"
  ELSE "badges"

ConfigurationMessages == { MsgNotConfigured, MsgUsersNotConfigured, MsgBadgesNotConfigured }

\* a service function has finished on a collection that is not configured
svcUnconfiguredDone ==
  svcResult.kind # "none" /\ ~ Configured(CollectionOf(svcResult.op))

\* C13 as stated: every operation (list, create, update, delete) on a
\* collection whose identifier was not supplied fails immediately with a
\* configuration error, distinct from a runtime/network error, without
\* contacting the store.
C13_UnconfiguredAlwaysFails ==
  svcUnconfiguredDone
    => /\ svcResult.kind = "threw"
       /\ svcResult.message \in ConfigurationMessages
       /\ svcResult.message # MsgStoreFailure
       /\ svcRequests = 0

ReadFunctions == { "listProspects", "listUsers", "fetchBadgeCounts" }

\* C13 amended: on a collection whose identifier was not supplied no service
\* function contacts the store; every create, update and delete function
\* throws at once the configuration error of its collection, distinct from a
\* runtime/network error; the list functions do not fail: they return an
\* empty list, and the badge read returns the default counts.
C13_UnconfiguredWritesFail ==
  svcUnconfiguredDone
    => /\ svcRequests = 0
       /\ IF svcResult.op \in ReadFunctions
            THEN /\ svcResult.kind = "returned" /\ svcResult.documents = << >>
                 /\ svcResult.op = "fetchBadgeCounts"
                      => svcResult.counts = DEFAULT_BADGES /\ svcResult.source = "default"
            ELSE /\ svcResult.kind = "threw"
                 /\ svcResult.message =
                      ( CASE CollectionOf(svcResult.op) = "prospects" -> MsgNotConfigured
                          [] CollectionOf(svcResult.op) = "users" -> MsgUsersNotConfigured
                          [] OTHER -> MsgBadgesNotConfigured )
                 /\ svcResult.message # MsgStoreFailure

\* with the database id supplied and the prospects collection id missing,
\* createProspect threw the configuration error after a configured
\* createUser call went to the store
C13_Witness ==
  /\ svcResult.op = "createProspect" /\ svcResult.kind = "threw"
  /\ svcResult.message = MsgNotConfigured /\ svcRequests = 0
  /\ svcConfigured.databaseId /\ ~ svcConfigured.prospects
  /\ svcUsers # {}

-----------------------------------------------------------------------------
(* Further properties of the import: assignment, duplicates, exclusion, documents *)

\* C22: import never sets an assignment: every document the import created
\* in the Record Store has assignedTo = "", and so has every candidate record
\* the fingerprint was computed from, also when a header of the sheet is
\* mapped to assignedTo and its cells are filled.
C22_ImportNeverAssigns ==
  /\ \A i \in 1..Len(store) : store[i].assignedTo = ""
  /\ \A i \in 1..Len(h.batch) : Get(h.batch[i], "assignedTo") = ""
  /\ \A i \in 1..Len(last.batch) : Get(last.batch[i], "assignedTo") = ""
  /\ pc \in { "create", "load" } =>
       h.signature = getImportSignature([ i \in 1..Len(h.batch) |->
                       [ h.batch[i] EXCEPT !["assignedTo"] = "" ] ])

\* a sheet with a filled "Assigned To" column was imported into the store
C22_Witness ==
  /\ last.outcome = "success"
  /\ last.headers = AssignedHeaders
  /\ matchExcelHeaderToSchemaField(last.headers[3]) = "assignedTo"
  /\ Len(store) > 0
  /\ store[Len(store)].assignedTo = ""

\* C23: a batch is rejected as a duplicate only if a batch with the same
\* multiset of candidate records, equal in every mapped field, was inserted
\* successfully earlier in the session.
C23_RejectsOnlyRepeatedBatches ==
  last.outcome = "duplicate" =>
    \E b \in insertedBatches : IsPermutation(b, last.batch)

\* the same sheet as h.file was submitted just before and reached the store
hResubmitted ==
  /\ pc = "parse" /\ h.file.readable
  /\ last.calls > 0
  /\ IsPermutation(last.batch, ImportLocals[h.file].prospects)

\* no import starts while one is running, and the fingerprint check of an
\* import sees every fingerprint recorded so far
OneImportAtATime ==
  /\ imports' # imports => pc = "idle" /\ importing = FALSE /\ outstanding = 0
  /\ pc # "idle" => importing = TRUE
  /\ pc \in { "parse", "create" } => h.sigs = importedSignatures
  /\ outstanding <= 1

\* C24 as stated: one import at a time, and two submissions of the same batch
\* never both reach the Record Store.
C24_SameBatchReachesStoreOnce ==
  [][ /\ OneImportAtATime
      /\ hResubmitted => createCalls' = createCalls ]_vars

\* C24: one import at a time, the fingerprint check sees every fingerprint
\* recorded so far, and a batch submitted again after its import succeeded
\* issues no createDocument call; after a failed insert the same batch is
\* sent to the Record Store again.
C24_OneImportInFlight ==
  [][ /\ OneImportAtATime
      /\ hResubmitted /\ last.outcome = "success" => createCalls' = createCalls
      /\ hResubmitted /\ last.outcome = "insert_failed" /\ configured
           /\ h.sigs = importedSignatures /\ h.file.readable
           => createCalls' = createCalls + 1 ]_vars

\* the batch imported just before was submitted again and turned away
C24_Witness ==
  /\ last.outcome = "duplicate"
  /\ imports = 2
  /\ Len(last.batch) > 0
  /\ createCalls = Len(last.batch)
  /\ importing = FALSE

\* C25: the document created for a candidate record carries, for each field
\* the sheet mapped, exactly the trimmed cell value of the candidate record.
C25_DocumentCarriesMappedFields ==
  pc = "load" =>
    \A i \in 1..Len(h.batch) :
      \A field \in DOMAIN h.batch[i] :
        \E doc \in { LastDocs(store, Len(h.batch))[i] } :
          /\ field \in DOMAIN doc
          /\ doc[field] = h.batch[i][field]

-----------------------------------------------------------------------------
(* Further properties of the service functions *)

\* C28: createUser for an email that has a document in the users collection
\* throws "A user with this email already exists." and creates nothing, no
\* two user documents ever share an email, and every document has role admin
\* or user.
C28_UserEmailsUnique ==
  /\ [] ( /\ \A a, b \in svcUsers : a.email = b.email => a = b
          /\ \A doc \in svcUsers : doc.role \in { "admin", "user" } )
  /\ [][ ( /\ svcCall.op = "createUser" /\ svcCall.step = "list"
           /\ \E doc \in svcUsers : doc.email = svcCall.email )
         => /\ svcResult' = Threw("createUser", MsgUserExists)
            /\ svcCall' = NoCall
            /\ svcUsers' = svcUsers ]_vars

\* the documents of the badge collection that saveBadgeCounts created
svcAppBadges == { i \in 1..Len(svcBadges) : svcBadges[i] # ConsoleBadgeDoc
                                             /\ svcBadges[i].id # ConsoleBadgeDoc.id }

\* a saveBadgeCounts step of either session: the call before the step, the
\* call after it and what it returned
svcSaveSteps ==
  { << svcCall, svcCall', svcResult' >>, << svcPeer, svcPeer', svcPeerResult' >> }

\* C21: with no document in the configured badge collection fetchBadgeCounts
\* returns the built-in defaults; a saveBadgeCounts that finds no document
\* creates the document badge-counts and one that finds a document updates
\* that document; under every interleaving of the saves of two sessions the
\* collection holds at most one document created by the app, and never more
\* than one document at all.
C21_OneBadgeDocument ==
  /\ [] ( Cardinality(svcAppBadges) <= 1 /\ Len(svcBadges) <= 1 )
  /\ [][ ( svcCall.op = "fetchBadgeCounts" /\ svcCall.step = "list"
           /\ svcCall' # svcCall /\ svcBadges = << >> )
         => ( svcResult'.counts = DEFAULT_BADGES /\ svcResult'.source = "default" ) ]_vars
  /\ [][ \A step \in svcSaveSteps :
           ( step[1].op = "saveBadgeCounts" /\ step[2] # step[1] )
           => /\ ( step[1].step = "list" /\ step[2].step = "create" )
                   => ( svcBadges = << >> /\ step[2].id = "badge-counts" )
              /\ ( step[1].step = "list" /\ step[2].step = "update" )
                   => ( svcBadges # << >> /\ step[2].id = svcBadges[1].id )
              /\ ( step[1].step \in { "create", "update" } /\ step[3].kind = "returned" )
                   => /\ Len(svcBadges') = 1
                      /\ svcBadges'[1].id = step[1].id
                      /\ countsOf(svcBadges'[1]) = step[1].data
                      /\ step[1].step = "update" => svcBadges # << >>
                      /\ step[1].step = "create" => svcBadges = << >> ]_vars

\* two sessions saved at the same time into an empty collection: both found
\* no document, one has created badge-counts, the other is about to create
C21_Witness ==
  /\ svcResult.op = "saveBadgeCounts" /\ svcResult.kind = "returned"
  /\ svcCall = NoCall
  /\ svcPeer.op = "saveBadgeCounts" /\ svcPeer.step = "create"
  /\ Len(svcBadges) = 1
  /\ svcBadges[1].id = "badge-counts"

-----------------------------------------------------------------------------
(* AdminDashboard: counts, draft and the Edit Badge Counts dialog *)

\* clicks and key strokes on the dashboard per run
MaxDashSteps == 4

\* the inputs that are edited and what is typed into them
EditedFields == { "open", "sangat" }

EditedValues == { "", "3" }

MsgSaved == "Badge counts saved successfully."

MsgSaveFailed == "Failed to save badge counts."

RECURSIVE NumberOf(_)
\* Number(s) of a string of decimal digits; Number("") is 0
NumberOf(s) ==
  IF s = "" THEN 0
  ELSE 10 * NumberOf(SubSeq(s, 1, Len(s) - 1))
       + (CHOOSE d \in 0..9 : SubSeq(DigitChars, d + 1, d + 1) = SubSeq(s, Len(s), Len(s)))

\* draft.open + draft.permanent + draft.elderly + draft.sangat + draft.newProspects
totalBadges ==
  dDraft.open + dDraft.permanent + dDraft.elderly + dDraft.sangat + dDraft.newProspects

\* what fetchBadgeCounts returns for an empty or unreachable collection
DefaultResult == [ source |-> "default", counts |-> DEFAULT_BADGES ]

DashInit ==
  /\ ImportOff
  /\ MatchOff
  /\ SheetOff
  /\ AuthOff
  /\ ServicesOff
  /\ CallsOff
  /\ dRemote \in { DefaultResult,
                   [ source |-> "database", counts |-> countsOf(ConsoleBadgeDoc) ] }
  /\ dCounts = ZeroCounts
  /\ dDraft = ZeroCounts
  /\ dLoading = TRUE
  /\ dSaving = FALSE
  /\ dSource = "default"
  /\ dError = ""
  /\ dSuccess = ""
  /\ dModalOpen = FALSE
  /\ dLoadPc = "mount"
  /\ dSaveDraft = ZeroCounts
  /\ dSteps = 0

\* the mount effect runs loadCounts up to await fetchBadgeCounts()
LoadCounts ==
  /\ dLoadPc = "mount"
  /\ dLoading' = TRUE
  /\ dError' = ""
  /\ dSuccess' = ""
  /\ dLoadPc' = "fetch"
  /\ UNCHANGED << dRemote, dCounts, dDraft, dSaving, dSource, dModalOpen, dSaveDraft,
                  dSteps >>
  /\ UNCHANGED outsideDash

\* fetchBadgeCounts resolved, with the defaults when its request failed
LoadCountsSettled(ok) ==
  /\ dLoadPc = "fetch"
  /\ \E result \in { IF ok THEN dRemote ELSE DefaultResult } :
       /\ dCounts' = result.counts
       /\ dDraft' = result.counts
       /\ dSource' = result.source
  /\ dLoading' = FALSE
  /\ dLoadPc' = "done"
  /\ UNCHANGED << dRemote, dSaving, dError, dSuccess, dModalOpen, dSaveDraft, dSteps >>
  /\ UNCHANGED outsideDash

\* a click or key stroke of the user
DashStep ==
  /\ dLoadPc \in { "fetch", "done" } /\ dSteps < MaxDashSteps
  /\ dSteps' = dSteps + 1

\* openBadgeModal, from the actions menu of the layout
OpenBadgeModal ==
  /\ DashStep
  /\ ~ dModalOpen
  /\ dDraft' = dCounts
  /\ dError' = ""
  /\ dSuccess' = ""
  /\ dModalOpen' = TRUE
  /\ UNCHANGED << dRemote, dCounts, dLoading, dSaving, dSource, dLoadPc, dSaveDraft >>
  /\ UNCHANGED outsideDash

\* handleChange(field) of an input of the dialog
HandleChange(field, value) ==
  /\ DashStep
  /\ dModalOpen
  /\ dDraft' = [ dDraft EXCEPT ![field] = NumberOf(value) ]
  /\ UNCHANGED << dRemote, dCounts, dLoading, dSaving, dSource, dError, dSuccess,
                  dModalOpen, dLoadPc, dSaveDraft >>
  /\ UNCHANGED outsideDash

\* closeBadgeModal: the backdrop at any time, Cancel while no save runs
CloseBadgeModal ==
  /\ DashStep
  /\ dModalOpen
  /\ dModalOpen' = FALSE
  /\ dDraft' = dCounts
  /\ UNCHANGED << dRemote, dCounts, dLoading, dSaving, dSource, dError, dSuccess,
                  dLoadPc, dSaveDraft >>
  /\ UNCHANGED outsideDash

\* handleSaveBadgeModal up to await saveBadgeCounts(draft); the button is
\* disabled while saving
HandleSaveBadgeModal ==
  /\ DashStep
  /\ dModalOpen /\ ~ dSaving
  /\ dSaving' = TRUE
  /\ dError' = ""
  /\ dSuccess' = ""
  /\ dSaveDraft' = dDraft
  /\ UNCHANGED << dRemote, dCounts, dDraft, dLoading, dSource, dModalOpen, dLoadPc >>
  /\ UNCHANGED outsideDash

\* saveBadgeCounts settled: setCounts with the draft the handler was called
\* with, or the error; finally setSaving(false)
SaveBadgeModalSettled(ok) ==
  /\ dSaving
  /\ IF ok
       THEN /\ dRemote' = [ source |-> "database", counts |-> dSaveDraft ]
            /\ dCounts' = dSaveDraft
            /\ dSuccess' = MsgSaved
            /\ dSource' = "database"
            /\ dModalOpen' = FALSE
            /\ UNCHANGED dError
       ELSE /\ dError' = OrElse(MsgStoreFailure, MsgSaveFailed)
            /\ UNCHANGED << dRemote, dCounts, dSuccess, dSource, dModalOpen >>
  /\ dSaving' = FALSE
  /\ UNCHANGED << dDraft, dLoading, dLoadPc, dSaveDraft, dSteps >>
  /\ UNCHANGED outsideDash

DashNext ==
  \/ LoadCounts
  \/ \E ok \in BOOLEAN : LoadCountsSettled(ok)
  \/ OpenBadgeModal
  \/ \E field \in EditedFields, value \in EditedValues : HandleChange(field, value)
  \/ CloseBadgeModal
  \/ HandleSaveBadgeModal
  \/ \E ok \in BOOLEAN : SaveBadgeModalSettled(ok)

SpecDash == DashInit /\ [][DashNext]_vars

\* C29: whenever the Edit Badge Counts dialog is closed and no save is in
\* flight, the draft shown in the charts equals the committed counts, and
\* the total shown is the total of the committed counts.
C29_DraftEqualsCounts ==
  (~ dModalOpen /\ ~ dSaving)
    => /\ dDraft = dCounts
       /\ totalBadges = dCounts.open + dCounts.permanent + dCounts.elderly
                        + dCounts.sangat + dCounts.newProspects

-----------------------------------------------------------------------------
(* UserDashboard: the call form, its submit and the delayed close *)

\* clicks and key strokes on the user dashboard per run
MaxCallSteps == 4

\* the prospects assigned to the user, by id
AssignedProspects == [ p1 |-> "Asha", p2 |-> "Bir" ]

\* user.email of the session
CallUser == "vol@cb"

\* the call log found for a prospect when the page was loaded
ExistingLog == [ select |-> "Interested", notes1 |-> "called", freeSewa |-> "" ]

\* the form fields typed into, and what is typed
TypedFields == { "notes1" }

TypedValues == { " busy " }

MsgSubmitted == "Form submitted successfully. Admin can view it in the dashboard."

MsgSubmitFailed == "Failed to submit form."

\* the payload createCallLog builds from its argument
callLogPayload(prospectId, form) ==
  [ prospectId |-> trimOr(prospectId, ""),
    prospectName |-> trimOr(AssignedProspects[prospectId], ""),
    submittedBy |-> trimOr(CallUser, ""),
    select |-> trimOr(form.select, ""),
    callBack |-> trimOr(form.callBack, ""),
    notInterest |-> trimOr(form.notInterest, ""),
    needToWork |-> trimOr(form.needToWork, ""),
    notes1 |-> trimOr(form.notes1, ""),
    notes2 |-> trimOr(form.notes2, ""),
    notes3 |-> trimOr(form.notes3, ""),
    nominalListSelect |-> trimOr(form.nominalListSelect, ""),
    visitSelect |-> trimOr(form.visitSelect, ""),
    freeSewa |-> trimOr(form.freeSewa, ""),
    jathaDetails |-> IF form.jathaDetails = << >> THEN "[]" ELSE "[...]" ]

CallsInit ==
  /\ ImportOff
  /\ MatchOff
  /\ SheetOff
  /\ AuthOff
  /\ ServicesOff
  /\ DashOff
  /\ uLogsByProspect \in { {}, { "p2" } }
  /\ uFormOpen = FALSE
  /\ uViewOnly = FALSE
  /\ uSelected = ""
  /\ uForm = INITIAL_FORM
  /\ uSubmitting = FALSE
  /\ uSuccess = ""
  /\ uError = ""
  /\ uPayload = NoPayload
  /\ uTimers = << >>
  /\ uFormId = 0
  /\ uCallLogs = << >>
  /\ uSteps = 0

\* a click or key stroke of the user
CallStep ==
  /\ uSteps < MaxCallSteps
  /\ uSteps' = uSteps + 1

\* openForm(prospect, { mode: hasLog ? 'view' : 'edit' }) from the list
OpenForm(prospect) ==
  /\ CallStep
  /\ ~ uFormOpen
  /\ uSelected' = prospect
  /\ IF prospect \in uLogsByProspect
       THEN /\ uForm' = [ INITIAL_FORM EXCEPT
                            !.select = OrElse(ExistingLog.select, ""),
                            !.notes1 = OrElse(ExistingLog.notes1, ""),
                            !.freeSewa = OrElse(ExistingLog.freeSewa, "N/A") ]
            /\ uViewOnly' = TRUE
       ELSE /\ uForm' = INITIAL_FORM
            /\ uViewOnly' = FALSE
  /\ uSuccess' = ""
  /\ uFormOpen' = TRUE
  /\ uFormId' = uFormId + 1
  /\ UNCHANGED << uLogsByProspect, uSubmitting, uError, uPayload, uTimers, uCallLogs >>
  /\ UNCHANGED outsideCalls

\* updateForm(field) of an input of the form; the inputs of a view-only form
\* are disabled
UpdateForm(field, value) ==
  /\ CallStep
  /\ uFormOpen /\ ~ uViewOnly
  /\ uForm' = [ uForm EXCEPT ![field] = value ]
  /\ UNCHANGED << uLogsByProspect, uFormOpen, uViewOnly, uSelected, uSubmitting,
                  uSuccess, uError, uPayload, uTimers, uFormId, uCallLogs >>
  /\ UNCHANGED outsideCalls

\* closeForm()
closeForm ==
  /\ uFormOpen' = FALSE
  /\ uSelected' = ""
  /\ uForm' = INITIAL_FORM
  /\ uViewOnly' = FALSE

\* the Back button or the backdrop
CloseForm ==
  /\ CallStep
  /\ uFormOpen
  /\ closeForm
  /\ UNCHANGED << uLogsByProspect, uSubmitting, uSuccess, uError, uPayload, uTimers,
                  uFormId, uCallLogs >>
  /\ UNCHANGED outsideCalls

\* handleSubmit up to await createCallLog(...); the submit button is disabled
\* while submitting
HandleSubmit ==
  /\ CallStep
  /\ uFormOpen /\ ~ uSubmitting
  /\ IF uViewOnly \/ uSelected = "" \/ CallUser = ""
       THEN UNCHANGED << uSubmitting, uError, uSuccess, uPayload >>
       ELSE /\ uSubmitting' = TRUE
            /\ uError' = ""
            /\ uSuccess' = ""
            /\ uPayload' = [ form |-> uFormId, data |-> callLogPayload(uSelected, uForm) ]
  /\ UNCHANGED << uLogsByProspect, uFormOpen, uViewOnly, uSelected, uForm, uTimers,
                  uFormId, uCallLogs >>
  /\ UNCHANGED outsideCalls

\* createCallLog settled: the success message and setTimeout(() => closeForm(),
\* 1500), or the error; finally setSubmitting(false)
SubmitSettled(ok) ==
  /\ uSubmitting
  /\ IF ok
       THEN /\ uCallLogs' = Append(uCallLogs, uPayload.data)
            /\ uSuccess' = MsgSubmitted
            /\ uTimers' = Append(uTimers, uPayload.form)
            /\ UNCHANGED uError
       ELSE /\ uError' = OrElse(MsgStoreFailure, MsgSubmitFailed)
            /\ UNCHANGED << uCallLogs, uSuccess, uTimers >>
  /\ uSubmitting' = FALSE
  /\ uPayload' = NoPayload
  /\ UNCHANGED << uLogsByProspect, uFormOpen, uViewOnly, uSelected, uForm, uFormId,
                  uSteps >>
  /\ UNCHANGED outsideCalls

\* 1500 ms after a successful submit: closeForm()
TimerFires ==
  /\ uTimers # << >>
  /\ uTimers' = Tail(uTimers)
  /\ closeForm
  /\ UNCHANGED << uLogsByProspect, uSubmitting, uSuccess, uError, uPayload, uFormId,
                  uCallLogs, uSteps >>
  /\ UNCHANGED outsideCalls

CallsNext ==
  \/ \E prospect \in DOMAIN AssignedProspects : OpenForm(prospect)
  \/ \E field \in TypedFields, value \in TypedValues : UpdateForm(field, value)
  \/ CloseForm
  \/ HandleSubmit
  \/ \E ok \in BOOLEAN : SubmitSettled(ok)
  \/ TimerFires

SpecCalls == CallsInit /\ [][CallsNext]_vars

\* C30: the delayed close set after a successful submit closes only the form
\* that was submitted: when it runs, the form that is open, if any, is the
\* one the submit came from; and a view-only form never starts a
\* createCallLog call.
C30_TimerClosesSubmittedForm ==
  /\ [][ Len(uTimers') < Len(uTimers)
           => (uFormOpen => Head(uTimers) = uFormId) ]_vars
  /\ [][ (uSubmitting' /\ ~ uSubmitting) => ~ uViewOnly ]_vars
  /\ [][ Len(uCallLogs') > Len(uCallLogs)
           => uCallLogs'[Len(uCallLogs')].prospectId \notin uLogsByProspect ]_vars

====
